---------------------------- MODULE Spec2Model ----------------------------
(***************************************************************************)
(* A model of package testctx (src/testctx.go, src/middleware.go): the     *)
(* wrapper W around a host unit (testing.T / testing.B), its middleware    *)
(* slice, its context, and the execution of Run / RunTests on top of the   *)
(* host runner (package testing: sub-units, Parallel, Cleanup).            *)
(***************************************************************************)
EXTENDS Integers, Sequences, FiniteSets, TLC

\* Bounds of the model.
MaxUnits == 3      \* sub-units spawned below the root unit
MaxParUnits == 2   \* the same, when the sub-units run in parallel
MaxLen == 2        \* registered middleware
MaxHeap == 4       \* wrappers built by the wrapper operations
MaxCleanups == 4   \* cleanup functions the test registers
MaxCleanupUnits == 2   \* sub-units of the test that registers cleanups
MaxMethods == 3    \* methods of the containers given to RunTests, in all
MaxContainers == 2 \* containers given to RunTests
MaxSignals == 1    \* Log / Error / Fatal / Skip calls of the test
MaxSignalUnits == 2    \* sub-units of the test that makes them
MaxTimeoutUnits == 2   \* sub-units of the test that runs under a timeout
MaxTimedUnits == 2     \* sub-units of the test whose bodies wait and sleep
MaxNameLen == 4        \* bytes of the name of a host unit
MaxLoggerUnits == 3    \* sub-units of the test whose bodies attach loggers

VARIABLES
    mode,       \* "run": the test calls tt.Run; "suite": it calls tt.RunTests;
                \* "cleanup": it calls tt.Run and registers cleanups;
                \* "signals": it calls tt.Run, and Log, Error, Fatal, Skip
                \* "timeout": it calls tt.Run under WithTimeout, and its
                \* bodies fail, skip, panic or replace their context
                \* "timed": it calls tt.Run under WithTimeout(d), and its
                \* bodies select on ctx.Done() and time.After
                \* "logger": it calls tt.Run, and WithLogger in its bodies
                \* "name": it calls BaseName; "mutable": it calls Use and
                \* Run of the mutable-registration variant
    arrays,     \* the heap of backing arrays of the middleware slices
    tt,         \* the wrapper the test function built with New and Using
    units,      \* host units spawned so far (path -> unit), with the goroutine of each
    ctxs,       \* the contexts derived so far (id -> parent, kind, bindings)
    canceled,   \* contexts whose own cancel function ran or whose deadline passed
    heap,       \* wrappers built by the wrapper operations (SpecW, SpecM)
    ran,        \* the cleanup functions the host ran, in order
    out,        \* the calls made on host units and loggers, in order
    suite,      \* the containers given to RunTests and the dispatch loop (SpecD)
    clock,      \* the time, the deadlines and the sleeps of the timed tests (SpecL)
    names       \* the name of a host unit and what BaseName returned (SpecB)

aux == <<ran, out, suite, clock, names>>
vars == <<mode, arrays, tt, units, ctxs, canceled, heap, ran, out, suite, clock,
          names>>

----------------------------------------------------------------------------
(* Middleware values.  A registered middleware is <<kind, n>>, n telling   *)
(* two registrations of one kind apart.                                    *)

Kinds == {"pass", "value", "logger", "timeout", "parallel"}
NoMw == <<"nil", 0>>            \* an unused slot of a backing array
SyncFn == <<"fn", 0>>           \* the innermost function of wrapWithMiddleware
NoLogger == <<"nil", <<>>>>
Root == <<>>

RECURSIVE CountKind(_, _)
CountKind(ks, k) ==
    IF ks = <<>> THEN 0
    ELSE (IF Head(ks) = k THEN 1 ELSE 0) + CountKind(Tail(ks), k)

\* The middleware lists a test registers: testing.T.Parallel panics when it
\* is called twice on one unit, so a list holds at most one WithParallel; it
\* holds one timeout, one counter and one logger at most, and any number of
\* pass-throughs.
KindLists ==
    {ks \in UNION {[1..n -> Kinds] : n \in 0..MaxLen} :
        \A k \in Kinds \ {"pass"} : CountKind(ks, k) <= 1}

Mws(ks, from) == [i \in 1..Len(ks) |-> <<ks[i], from + i>>]

----------------------------------------------------------------------------
(* Go slices: a slice is (array, len, cap); append writes in place when    *)
(* the capacity suffices and allocates a grown array otherwise.            *)

NilSlice == [arr |-> 0, len |-> 0, cap |-> 0]

Elems(as, s) == [i \in 1..s.len |-> as[s.arr][i]]

\* The capacity the runtime gives a grown slice of pointer-sized elements:
\* doubled, or the needed length when that is more, rounded up to a size class.
GrowCap(old, needed) ==
    LET c == IF needed > 2 * old THEN needed ELSE 2 * old
    IN IF c <= 4 THEN c ELSE c + (c % 2)

Pad(seq, n) == [i \in 1..n |-> IF i <= Len(seq) THEN seq[i] ELSE NoMw]

\* append(s, m...)
append(as, s, m) ==
    IF Len(m) = 0 THEN [arrays |-> as, slice |-> s]
    ELSE IF s.len + Len(m) <= s.cap
    THEN [arrays |-> [as EXCEPT ![s.arr] =
                        [i \in 1..s.cap |->
                            IF i > s.len /\ i <= s.len + Len(m) THEN m[i - s.len]
                            ELSE @[i]]],
          slice |-> [s EXCEPT !.len = s.len + Len(m)]]
    ELSE LET c == GrowCap(s.cap, s.len + Len(m))
         IN [arrays |-> as \o <<Pad(Elems(as, s) \o m, c)>>,
             slice |-> [arr |-> Len(as) + 1, len |-> s.len + Len(m), cap |-> c]]

\* The slice of a variadic argument list: nil for no arguments.
Variadic(as, m) ==
    IF Len(m) = 0 THEN [arrays |-> as, slice |-> NilSlice]
    ELSE [arrays |-> as \o <<m>>,
          slice |-> [arr |-> Len(as) + 1, len |-> Len(m), cap |-> Len(m)]]

----------------------------------------------------------------------------
(* Contexts (package context): an immutable chain of nodes.  A node is     *)
(* canceled when its own cancel function ran, its deadline passed, or an   *)
(* ancestor is canceled.                                                   *)

Background == <<Root, -1>>
CountKey == <<"count", Root>>
TagKey(u) == <<"tag", u>>

RECURSIVE Ancestors(_, _)
Ancestors(cs, c) ==
    IF c = Background THEN {c} ELSE {c} \cup Ancestors(cs, cs[c].parent)

Done(cs, cd, c) == Ancestors(cs, c) \cap cd # {}

Canceled(c) == Done(ctxs, canceled, c)

\* ctx.Value(k), 0 standing for nil
RECURSIVE Value(_, _, _)
Value(cs, c, k) ==
    IF c = Background THEN 0
    ELSE IF k \in DOMAIN cs[c].vals THEN cs[c].vals[k]
         ELSE Value(cs, cs[c].parent, k)

CtxNode(parent, kind, vals) == [parent |-> parent, kind |-> kind, vals |-> vals]

----------------------------------------------------------------------------
(* The wrapper W and its operations.                                       *)

\* (a copy that leaves the logger out)
cloneNoLogger(w) ==
    [TB |-> w.TB, tb |-> w.tb, ctx |-> w.ctx,
     middleware |-> w.middleware, logger |-> NoLogger]

\* clone: a shallow copy with all fields preserved
clone(w) ==
    [TB |-> w.TB, tb |-> w.tb, ctx |-> w.ctx,
     middleware |-> w.middleware, logger |-> w.logger]

\* (a New that keeps the cancel function and registers no cleanup)
NewNoCleanup(as, t, m) ==
    LET v == Variadic(as, m)
    IN [arrays |-> v.arrays,
        ctx |-> <<t, 0>>,
        node |-> CtxNode(Background, "cancel", <<>>),
        cleanup |-> <<>>,
        w |-> [TB |-> t, tb |-> t, ctx |-> <<t, 0>>,
               middleware |-> v.slice, logger |-> NoLogger]]

\* New: the context is WithCancel(Background), its cancel a cleanup of t
New(as, t, m) ==
    LET v == Variadic(as, m)
    IN [arrays |-> v.arrays,
        ctx |-> <<t, 0>>,
        node |-> CtxNode(Background, "cancel", <<>>),
        cleanup |-> <<[op |-> "cancel", ctx |-> <<t, 0>>]>>,
        w |-> [TB |-> t, tb |-> t, ctx |-> <<t, 0>>,
               middleware |-> v.slice, logger |-> NoLogger]]

\* (a Using that appends from the start of the receiver's array:
\* append(clone.middleware[:0], m...))
UsingInPlace(as, w, m) ==
    LET a == append(as, [clone(w).middleware EXCEPT !.len = 0], m)
    IN [arrays |-> a.arrays, w |-> [clone(w) EXCEPT !.middleware = a.slice]]

\* Using: clone.middleware = append(clone.middleware[:], m...)
Using(as, w, m) ==
    LET a == append(as, clone(w).middleware, m)
    IN [arrays |-> a.arrays, w |-> [clone(w) EXCEPT !.middleware = a.slice]]

\* Context
Context(w) == w.ctx

\* (a WithContext that forgets to set the context)
WithContextKeep(w, ctx) == clone(w)

\* WithContext
WithContext(w, ctx) == [clone(w) EXCEPT !.ctx = ctx]

\* (a WithLogger that builds the wrapper anew and leaves the middleware out)
WithLoggerBare(w, l) ==
    [TB |-> w.TB, tb |-> w.tb, ctx |-> w.ctx,
     middleware |-> NilSlice, logger |-> l]

\* WithLogger
WithLogger(w, l) == [clone(w) EXCEPT !.logger = l]

\* Unwrap
Unwrap(w) == w.tb

\* wrapWithMiddleware: the closure chain, outermost layer first.  The loop
\* walks the middleware from the last to the first; each wraps what is built.
RECURSIVE WrapFrom(_, _, _, _)
WrapFrom(as, w, i, wrapped) ==
    IF i < 1 THEN wrapped
    ELSE WrapFrom(as, w, i - 1, <<as[w.middleware.arr][i]>> \o wrapped)

\* (a loop that walks the middleware from the first to the last)
RECURSIVE WrapUpFrom(_, _, _, _)
WrapUpFrom(as, w, i, wrapped) ==
    IF i > w.middleware.len THEN wrapped
    ELSE WrapUpFrom(as, w, i + 1, <<as[w.middleware.arr][i]>> \o wrapped)

wrapFirstToLast(as, w) == WrapUpFrom(as, w, 1, <<SyncFn>>)

\* (a loop that stops before the first middleware: i > 0 for i >= 0)
wrapSkipFirst(as, w) ==
    IF w.middleware.len = 0 THEN <<SyncFn>>
    ELSE Tail(WrapFrom(as, w, w.middleware.len, <<SyncFn>>))

wrapWithMiddleware(as, w) == WrapFrom(as, w, w.middleware.len, <<SyncFn>>)

\* (an innermost function that hands t on as it is: fn(ctx, t))
syncNone(ctx, t) == [ctx |-> ctx, t |-> t]

\* The innermost function: func(ctx, t) { fn(ctx, t.WithContext(ctx)) };
\* what fn is called with.
syncFn(ctx, t) == [ctx |-> ctx, t |-> WithContext(t, ctx)]

----------------------------------------------------------------------------
(* The host runner (package testing) and the execution of a unit.          *)
(* A unit's goroutine runs the closure chain of wrapWithMiddleware:        *)
(* frames[i] holds the (ctx, t) that layer i of the chain was called with. *)

Frame(ctx, t) == [ctx |-> ctx, t |-> t]

UnitRec(w, wrapped, frames, phase) ==
    [st |-> "run",          \* run, paused (in Parallel), join (fn returned), done
     par |-> FALSE,         \* Parallel was called on the unit
     wr |-> w,              \* the wrapper whose Run / RunTests spawned the chain
     chain |-> wrapped,
     frames |-> frames,
     pos |-> 1,             \* the layer of the chain that runs next
     phase |-> phase,       \* call, down, body, up, ret
     fnctx |-> w.ctx,       \* the ctx and the wrapper fn was called with
     fnw |-> w,
     atStart |-> FALSE,     \* fnctx was already canceled when fn was called
     kids |-> 0,            \* sub-units the body spawned
     log |-> <<>>,          \* the steps run on the unit, in order
     cleanups |-> <<>>,     \* the unit's registered cleanup functions
     failed |-> FALSE,      \* the host's record of the unit: Failed()
     skipped |-> FALSE,     \* Skipped()
     hostret |-> "none",    \* what tb.Run returned to the parent for the unit:
                            \* "true" or "false", "none" before it returns
     ret |-> "none"]        \* what the wrapper's Run returned for it

Spawned == DOMAIN units
Parent(u) == SubSeq(u, 1, Len(u) - 1)
Kids(p) == {u \in Spawned : Len(u) = Len(p) + 1 /\ Parent(u) = p}
IsPrefix(a, b) == Len(a) <= Len(b) /\ SubSeq(b, 1, Len(a)) = a
Descendants(p) == {u \in Spawned : u # p /\ IsPrefix(p, u)}

\* t.Run returns when the sub-unit completed or called Parallel.
Blocked(p) == \E c \in Kids(p) : units[c].st # "done" /\ ~units[c].par

Active(u) == u \in Spawned /\ units[u].st = "run"

Layer(u) == units[u].chain[units[u].pos]
Args(u) == units[u].frames[units[u].pos]

\* (a closure that leaves newW.tb the parent's unit)
runClosureKeepTb(as, w, t) ==
    LET newW == [clone(w) EXCEPT !.TB = t]
    IN UnitRec(w, wrapWithMiddleware(as, w), <<[ctx |-> newW.ctx, t |-> newW]>>, "down")

\* (a closure that sets newW.tb and leaves the embedded TB the parent's)
runClosureTbOnly(as, w, t) ==
    LET newW == [clone(w) EXCEPT !.tb = t]
    IN UnitRec(w, wrapWithMiddleware(as, w), <<Frame(newW.ctx, newW)>>, "down")

\* (a closure that builds the child wrapper without the logger)
runClosureNoLogger(as, w, t) ==
    LET newW == [clone(w) EXCEPT !.tb = t, !.TB = t, !.logger = NoLogger]
    IN UnitRec(w, wrapWithMiddleware(as, w), <<Frame(newW.ctx, newW)>>, "down")

\* The closure tb.Run is given in Run: newW := w.clone(); newW.tb = t;
\* newW.TB = t; wrapped := w.wrapWithMiddleware(fn); wrapped(newW.ctx, newW)
RunClosure(as, w, t) ==
    LET newW == [clone(w) EXCEPT !.tb = t, !.TB = t]
    IN UnitRec(w, wrapWithMiddleware(as, w), <<Frame(newW.ctx, newW)>>, "down")

\* The sub-units the test program spawns at most.
UnitBound ==
    IF mode = "cleanup" THEN MaxCleanupUnits
    ELSE IF mode = "signals" THEN MaxSignalUnits
    ELSE IF mode = "timeout" THEN MaxTimeoutUnits
    ELSE IF mode = "timed" THEN MaxTimedUnits
    ELSE IF mode = "logger" THEN MaxLoggerUnits
    ELSE IF \E i \in 1..tt.middleware.len : arrays[tt.middleware.arr][i][1] = "parallel"
    THEN MaxParUnits ELSE MaxUnits

\* (a Run that reports success whatever the host returned)
runResultTrue(b) == "true"

\* Run: return w.tb.Run(name, ...)
RunResult(b) == b

\* (a Run that reports failure for a unit whose context is canceled)
reportedCanceled(r) ==
    IF r.hostret # "none" THEN r
    ELSE LET ok == IF r.failed \/ Canceled(r.fnctx) THEN "false" ELSE "true"
         IN [r EXCEPT !.hostret = ok, !.ret = RunResult(ok)]

\* tb.Run returns to the parent: the unit has not failed so far.
Reported(r) ==
    IF r.hostret # "none" THEN r
    ELSE LET ok == IF r.failed THEN "false" ELSE "true"
         IN [r EXCEPT !.hostret = ok, !.ret = RunResult(ok)]

\* Run: the body of unit p calls Run(name, fn) on the wrapper it holds.
Run(p) ==
    /\ Active(p) /\ units[p].phase = "body" /\ ~Blocked(p)
    /\ Cardinality(Spawned) <= UnitBound
    /\ LET t == p \o <<units[p].kids + 1>>
       IN units' = (t :> RunClosure(arrays, units[p].fnw, t))
                     @@ [units EXCEPT ![p].kids = @ + 1]
    /\ UNCHANGED <<mode, arrays, tt, ctxs, canceled, heap, aux>>

\* (a runMethods that calls the dispatch without the middleware)
runMethodsBare ==
    /\ mode = "suite" /\ Active(Root) /\ units[Root].phase = "call"
    /\ units' = [units EXCEPT ![Root] =
                    [@ EXCEPT !.chain = <<SyncFn>>,
                              !.frames = <<Frame(tt.ctx, tt)>>,
                              !.phase = "down"]]
    /\ UNCHANGED <<mode, arrays, tt, ctxs, canceled, heap, aux>>

\* runMethods: wrapped := w.wrapWithMiddleware(dispatch); wrapped(w.ctx, w)
runMethods ==
    /\ mode = "suite" /\ Active(Root) /\ units[Root].phase = "call"
    /\ units' = [units EXCEPT ![Root] =
                    [@ EXCEPT !.chain = wrapWithMiddleware(arrays, tt),
                              !.frames = <<Frame(tt.ctx, tt)>>,
                              !.phase = "down"]]
    /\ UNCHANGED <<mode, arrays, tt, ctxs, canceled, heap, aux>>

Before(u) == <<"before", Layer(u)>>

\* next(ctx, t): the call of the next layer of the chain
Next1(r, entry, ctx, t) ==
    [r EXCEPT !.frames = Append(@, Frame(ctx, t)), !.pos = @ + 1,
              !.log = Append(@, entry)]

\* A middleware that only calls next(ctx, t).
PassMw(u) ==
    /\ Active(u) /\ units[u].phase = "down" /\ Layer(u)[1] = "pass"
    /\ units' = [units EXCEPT ![u] = Next1(@, Before(u), Args(u).ctx, Args(u).t)]
    /\ UNCHANGED <<mode, arrays, tt, ctxs, canceled, heap, aux>>

\* A middleware that reads a counter from ctx (0 if absent), binds
\* counter+1 and a key of its unit, and calls next with the derived context.
ValueMw(u) ==
    /\ Active(u) /\ units[u].phase = "down" /\ Layer(u)[1] = "value"
    /\ LET c == <<u, units[u].pos>>
           a == Args(u)
       IN /\ ctxs' = (c :> CtxNode(a.ctx, "value",
                            (CountKey :> Value(ctxs, a.ctx, CountKey) + 1)
                               @@ (TagKey(a.t.TB) :> 1))) @@ ctxs
          /\ units' = [units EXCEPT ![u] = Next1(@, Before(u), c, a.t)]
    /\ UNCHANGED <<mode, arrays, tt, canceled, heap, aux>>

\* A middleware that attaches a logger: next(ctx, t.WithLogger(l))
LoggerMw(u) ==
    /\ Active(u) /\ units[u].phase = "down" /\ Layer(u)[1] = "logger"
    /\ units' = [units EXCEPT ![u] =
                    Next1(@, Before(u), Args(u).ctx,
                          WithLogger(Args(u).t, <<"logger", Args(u).t.TB>>))]
    /\ UNCHANGED <<mode, arrays, tt, ctxs, canceled, heap, aux>>

\* The timers with that of the context c, derived now with the timeout d
\* (the tests that keep no time leave the moment of a deadline open).
Armed(c) ==
    IF mode = "timed" THEN [clock EXCEPT !.due = (c :> clock.now + clock.d) @@ @]
    ELSE clock

\* (a WithTimeout that derives from context.Background())
withTimeoutDetached(u) ==
    /\ Active(u) /\ units[u].phase = "down" /\ Layer(u)[1] = "timeout"
    /\ LET c == <<u, units[u].pos>>
           a == Args(u)
       IN /\ ctxs' = (c :> CtxNode(Background, "timeout", <<>>)) @@ ctxs
          /\ clock' = Armed(c)
          /\ units' = [units EXCEPT ![u] = Next1(@, Before(u), c, a.t)]
    /\ UNCHANGED <<mode, arrays, tt, canceled, heap, ran, out, suite, names>>

\* (a WithTimeout that calls next with the context it was given)
withTimeoutShadowed(u) ==
    /\ Active(u) /\ units[u].phase = "down" /\ Layer(u)[1] = "timeout"
    /\ LET c == <<u, units[u].pos>>
           a == Args(u)
       IN /\ ctxs' = (c :> CtxNode(a.ctx, "timeout", <<>>)) @@ ctxs
          /\ clock' = Armed(c)
          /\ units' = [units EXCEPT ![u] = Next1(@, Before(u), a.ctx, a.t)]
    /\ UNCHANGED <<mode, arrays, tt, canceled, heap, ran, out, suite, names>>

\* WithTimeout: ctx, cancel := context.WithTimeout(ctx, d); defer cancel()
WithTimeout(u) ==
    /\ Active(u) /\ units[u].phase = "down" /\ Layer(u)[1] = "timeout"
    /\ LET c == <<u, units[u].pos>>
           a == Args(u)
       IN /\ ctxs' = (c :> CtxNode(a.ctx, "timeout", <<>>)) @@ ctxs
          /\ clock' = Armed(c)
          /\ units' = [units EXCEPT ![u] = Next1(@, Before(u), c, a.t)]
    /\ UNCHANGED <<mode, arrays, tt, canceled, heap, ran, out, suite, names>>

\* WithParallel: t.tb.Parallel(); next(ctx, t).  Parallel signals the
\* parent, whose Run returns, and waits until the parent's function returned.
WithParallel(u) ==
    /\ Active(u) /\ units[u].phase = "down" /\ Layer(u)[1] = "parallel"
    /\ Args(u).t.tb = u
    /\ units' = [units EXCEPT ![u] =
                    Reported([Next1(@, Before(u), Args(u).ctx, Args(u).t)
                                EXCEPT !.st = "paused", !.par = TRUE])]
    /\ UNCHANGED <<mode, arrays, tt, ctxs, canceled, heap, aux>>

\* The host releases a unit waiting in Parallel once its parent's function
\* returned (the root's parent is the test binary's main runner).
Resume(u) ==
    /\ u \in Spawned /\ units[u].st = "paused"
    /\ u = Root \/ units[Parent(u)].st \in {"join", "done"}
    /\ units' = [units EXCEPT ![u].st = "run"]
    /\ UNCHANGED <<mode, arrays, tt, ctxs, canceled, heap, aux>>

\* The innermost function of wrapWithMiddleware: fn(ctx, t.WithContext(ctx))
CallFn(u) ==
    /\ Active(u) /\ units[u].phase = "down" /\ Layer(u) = SyncFn
    /\ LET a == syncFn(Args(u).ctx, Args(u).t)
       IN units' = [units EXCEPT ![u] =
                      [@ EXCEPT !.phase = "body",
                                !.fnctx = a.ctx,
                                !.fnw = a.t,
                                !.atStart = Canceled(a.ctx),
                                !.log = Append(@, <<"fn", SyncFn>>)]]
    /\ UNCHANGED <<mode, arrays, tt, ctxs, canceled, heap, aux>>

\* The unit's function returned: the host waits for the parallel sub-units.
Returned(r) == [r EXCEPT !.pos = 0, !.phase = "ret", !.st = "join"]

\* fn returns to the innermost middleware.
FnReturn(u) ==
    /\ Active(u) /\ units[u].phase = "body" /\ ~Blocked(u)
    /\ LET r == units[u]
       IN units' = [units EXCEPT ![u] =
                      IF Len(r.chain) <= 1 THEN Returned(r)
                      ELSE [r EXCEPT !.phase = "up", !.pos = Len(r.chain) - 1]]
    /\ UNCHANGED <<mode, arrays, tt, ctxs, canceled, heap, aux>>

\* next returned to layer pos: the rest of the middleware runs, then its
\* deferred calls (WithTimeout's cancel), and it returns to the layer above.
MwReturn(u) ==
    /\ Active(u) /\ units[u].phase = "up"
    /\ LET i == units[u].pos
           r == [units[u] EXCEPT !.log = Append(@, <<"after", Layer(u)>>)]
       IN /\ units' = [units EXCEPT ![u] =
                          IF i = 1 THEN Returned(r) ELSE [r EXCEPT !.pos = i - 1]]
          /\ canceled' = IF Layer(u)[1] = "timeout"
                         THEN canceled \cup {units[u].frames[i + 1].ctx}
                         ELSE canceled
    /\ UNCHANGED <<mode, arrays, tt, ctxs, heap, aux>>

\* The host runs the unit's cleanups, last registered first, once the unit's
\* function returned and its sub-units completed.
RunCleanup(u) ==
    /\ u \in Spawned /\ units[u].st = "join"
    /\ \A c \in Kids(u) : units[c].st = "done"
    /\ units[u].cleanups # <<>>
    /\ LET n == Len(units[u].cleanups)
           c == units[u].cleanups[n]
       IN /\ canceled' = IF c.op = "cancel" THEN canceled \cup {c.ctx} ELSE canceled
          /\ ran' = Append(ran, c)
          /\ units' = [units EXCEPT ![u].cleanups = SubSeq(@, 1, n - 1)]
    /\ UNCHANGED <<mode, arrays, tt, ctxs, heap, out, suite, clock, names>>

\* The host reports the unit and signals its parent.
Complete(u) ==
    /\ u \in Spawned /\ units[u].st = "join"
    /\ \A c \in Kids(u) : units[c].st = "done"
    /\ units[u].cleanups = <<>>
    /\ units' = [units EXCEPT ![u] = Reported([@ EXCEPT !.st = "done"])]
    /\ UNCHANGED <<mode, arrays, tt, ctxs, canceled, heap, aux>>

\* The deadline of a context derived by WithTimeout passes.
Deadline(c) ==
    /\ c \in DOMAIN ctxs /\ ctxs[c].kind = "timeout" /\ ~Canceled(c)
    /\ mode = "timed" => clock.due[c] <= clock.now
    /\ canceled' = canceled \cup {c}
    /\ UNCHANGED <<mode, arrays, tt, units, ctxs, heap, aux>>

\* The test function: tt := New(t, m1...).Using(m2...), then tt.Run(...)
\* or tt.RunTests(...).  New is given the first half of the middleware.
Init ==
    \E md \in {"run", "suite"}, ks \in KindLists :
        \E k \in {Len(ks) \div 2} :
            LET n == New(<<>>, Root, Mws(SubSeq(ks, 1, k), 0))
                g == Using(n.arrays, n.w, Mws(SubSeq(ks, k + 1, Len(ks)), k))
            IN /\ mode = md
               /\ arrays = g.arrays
               /\ tt = g.w
               /\ ctxs = (n.ctx :> n.node)
               /\ canceled = {}
               /\ heap = <<>>
               /\ ran = <<>> /\ out = <<>> /\ suite = <<>> /\ names = <<>> /\ clock = <<>>
               /\ units = (Root :>
                     [UnitRec(g.w, <<>>, <<>>, IF md = "run" THEN "body" ELSE "call")
                        EXCEPT !.cleanups = n.cleanup])

Next ==
    \/ runMethods
    \/ \E u \in DOMAIN units :
          \/ Run(u)
          \/ PassMw(u)
          \/ ValueMw(u)
          \/ LoggerMw(u)
          \/ WithTimeout(u)
          \/ WithParallel(u)
          \/ Resume(u)
          \/ CallFn(u)
          \/ FnReturn(u)
          \/ MwReturn(u)
          \/ RunCleanup(u)
          \/ Complete(u)
    \/ \E c \in DOMAIN ctxs : Deadline(c)

Spec == Init /\ [][Next]_vars

----------------------------------------------------------------------------
(* The wrapper operations on their own: a test builds wrappers from the    *)
(* one New returned, with Using, WithContext, WithLogger and Run, and      *)
(* derives and cancels contexts.  heap[i] is the i-th wrapper built, with  *)
(* the operation, the receiver and the arguments that built it.            *)

Entry(w, op, from, mws, carg) ==
    [w |-> w, op |-> op, from |-> from, mws |-> mws, carg |-> carg]

RECURSIVE Registrations(_)
Registrations(h) ==
    IF h = <<>> THEN 0 ELSE Len(Head(h).mws) + Registrations(Tail(h))

\* n middleware values not registered before
Fresh(h, n) == [j \in 1..n |-> <<"pass", Registrations(h) + j>>]

Loggers == {<<"logger", Root>>}

\* The test function: tt := New(t, m1...).Using(m2...), and
\* ctx, cancel := context.WithCancel(tt.Context())
Derived == <<Root, 1>>

InitW ==
    \E n1 \in 0..MaxLen, n2 \in 0..MaxLen :
        LET r == New(<<>>, Root, Fresh(<<>>, n1))
            e == Entry(r.w, "New", 0, Fresh(<<>>, n1), Background)
            g == Using(r.arrays, r.w, Fresh(<<e>>, n2))
        IN /\ mode = "ops"
           /\ arrays = g.arrays
           /\ tt = g.w
           /\ ctxs = (r.ctx :> r.node) @@ (Derived :> CtxNode(r.ctx, "cancel", <<>>))
           /\ canceled = {}
           /\ units = <<>>
           /\ ran = <<>> /\ out = <<>> /\ suite = <<>> /\ names = <<>> /\ clock = <<>>
           /\ heap = <<e, Entry(g.w, "Using", 1, Fresh(<<e>>, n2), Background)>>

\* w2 := w.Using(m...)
OpUsing(i, n) ==
    /\ Len(heap) < MaxHeap
    /\ LET m == Fresh(heap, n)
           g == Using(arrays, heap[i].w, m)
       IN /\ arrays' = g.arrays
          /\ heap' = Append(heap, Entry(g.w, "Using", i, m, Background))
    /\ UNCHANGED <<mode, tt, units, ctxs, canceled, aux>>

\* w2 := w.WithContext(ctx)
OpWithContext(i, c) ==
    /\ Len(heap) < MaxHeap
    /\ heap' = Append(heap,
                  Entry(WithContext(heap[i].w, c), "WithContext", i, <<>>, c))
    /\ UNCHANGED <<mode, arrays, tt, units, ctxs, canceled, aux>>

\* w2 := w.WithLogger(l)
OpWithLogger(i, l) ==
    /\ Len(heap) < MaxHeap
    /\ heap' = Append(heap,
                  Entry(WithLogger(heap[i].w, l), "WithLogger", i, <<>>, Background))
    /\ UNCHANGED <<mode, arrays, tt, units, ctxs, canceled, aux>>

\* w.Run(name, fn): the child wrapper newW the closure builds
OpRun(i) ==
    /\ Len(heap) < MaxHeap
    /\ LET t == Append(Unwrap(heap[i].w), Len(heap))
       IN heap' = Append(heap,
                    Entry(RunClosure(arrays, heap[i].w, t).frames[1].t,
                          "Run", i, <<>>, Background))
    /\ UNCHANGED <<mode, arrays, tt, units, ctxs, canceled, aux>>

\* cancel(): the cancel function of a context is called (for the context
\* of New, by the host when it runs the unit's cleanups)
CtxCancel(c) ==
    /\ c \notin canceled
    /\ canceled' = canceled \cup {c}
    /\ UNCHANGED <<mode, arrays, tt, units, ctxs, heap, aux>>

NextW ==
    \/ \E i \in 1..Len(heap) :
          \/ \E n \in 0..MaxLen : OpUsing(i, n)
          \/ \E c \in DOMAIN ctxs \cup {Background} : OpWithContext(i, c)
          \/ \E l \in Loggers : OpWithLogger(i, l)
          \/ OpRun(i)
    \/ \E c \in DOMAIN ctxs : CtxCancel(c)

SpecW == InitW /\ [][NextW]_vars

----------------------------------------------------------------------------
(* Cleanup functions.  W embeds testing.TB, so w.Cleanup(f) is the         *)
(* promoted method of the embedded unit; the bodies of the units register  *)
(* cleanups through the wrapper they were handed or through the wrapper   *)
(* tt they captured, and spawn sub-units.                                  *)

\* (a Cleanup that registers on the unit New was given)
cleanupOnRoot(w) == Root

\* The unit w.Cleanup registers on: the embedded TB
CleanupUnit(w) == w.TB

\* The cleanups the test registered so far, pending or run.
UserCleanups(seq) == {i \in 1..Len(seq) : seq[i].op = "user"}

RECURSIVE Pending(_)
Pending(us) ==
    IF us = {} THEN 0
    ELSE LET u == CHOOSE x \in us : TRUE
         IN Cardinality(UserCleanups(units[u].cleanups)) + Pending(us \ {u})

NumRegistered == Pending(Spawned) + Cardinality(UserCleanups(ran))

\* w.Cleanup(f) in the body of unit u; the record keeps the unit w is bound
\* to and the number of the registration.
Cleanup(u, w) ==
    /\ Active(u) /\ units[u].phase = "body" /\ ~Blocked(u)
    /\ NumRegistered < MaxCleanups
    /\ units' = [units EXCEPT ![CleanupUnit(w)].cleanups =
                    Append(@, [op |-> "user", by |-> Unwrap(w),
                               n |-> NumRegistered + 1])]
    /\ UNCHANGED <<mode, arrays, tt, ctxs, canceled, heap, aux>>

\* The middleware of the cleanup tests: none, or WithParallel.
KindListsC == {ks \in KindLists : \A i \in 1..Len(ks) : ks[i] = "parallel"}

InitC ==
    \E ks \in KindListsC :
        LET n == New(<<>>, Root, Mws(ks, 0))
        IN /\ mode = "cleanup"
           /\ arrays = n.arrays
           /\ tt = n.w
           /\ ctxs = (n.ctx :> n.node)
           /\ canceled = {}
           /\ heap = <<>>
           /\ ran = <<>> /\ out = <<>> /\ suite = <<>> /\ names = <<>> /\ clock = <<>>
           /\ units = (Root :>
                 [UnitRec(n.w, <<>>, <<>>, "body") EXCEPT !.cleanups = n.cleanup])

NextC ==
    \E u \in DOMAIN units :
        \/ Run(u)
        \/ \E w \in {units[u].fnw, tt} : Cleanup(u, w)
        \/ WithParallel(u)
        \/ Resume(u)
        \/ CallFn(u)
        \/ FnReturn(u)
        \/ MwReturn(u)
        \/ RunCleanup(u)
        \/ Complete(u)

SpecC == InitC /\ [][NextC]_vars

----------------------------------------------------------------------------
(* Suite dispatch: the loop of runMethods over the containers and their    *)
(* methods.  A string is the sequence of its bytes; a method is a name and *)
(* the types of its parameters after the receiver; a container is the set  *)
(* of its exported methods, which reflect lists sorted by name.            *)

Str_Test == <<84, 101, 115, 116>>
Str_Benchmark == <<66, 101, 110, 99, 104, 109, 97, 114, 107>>
Str_Tes == <<84, 101, 115>>
Str_TestA == Str_Test \o <<65>>
Str_TestB == Str_Test \o <<66>>
Str_BenchmarkA == Str_Benchmark \o <<65>>

MethodNames == {Str_Tes, Str_TestA, Str_TestB, Str_BenchmarkA}

\* (ctx, *W[T]); no parameters; (ctx, *W[U]) for another unit type U
Signatures == {<<"ctx", "w">>, <<>>, <<"ctx", "other">>}

\* strings.HasPrefix
HasPrefix(str, prefix) ==
    Len(str) >= Len(prefix) /\ SubSeq(str, 1, Len(prefix)) = prefix

\* (a signature test that counts the parameters only)
signatureArity(sig) == Len(sig) + 1 = 3

\* The signature test of runMethods: NumIn() = 3 with the receiver, In(1)
\* a context, In(2) the wrapper type.
SignatureOk(sig) == Len(sig) + 1 = 3 /\ sig[1] = "ctx" /\ sig[2] = "w"

\* The order of strings: byte by byte, a proper prefix first.
RECURSIVE LexLess(_, _)
LexLess(a, b) ==
    IF b = <<>> THEN FALSE
    ELSE IF a = <<>> THEN TRUE
    ELSE \/ Head(a) < Head(b)
         \/ Head(a) = Head(b) /\ LexLess(Tail(a), Tail(b))

NumMethod(c) == Cardinality(c)

\* (a Method(i) that lists the methods from the last name to the first)
MethodLast(c, i) ==
    CHOOSE m \in c : Cardinality({x \in c : LexLess(m.name, x.name)}) = i

\* reflect.Type.Method(i), i from 0: the methods sorted by name
Method(c, i) ==
    CHOOSE m \in c : Cardinality({x \in c : LexLess(x.name, m.name)}) = i

\* The containers a test hands over: sets of methods with distinct names,
\* one method at least.
Containers ==
    {c \in SUBSET [name : MethodNames, sig : Signatures] :
        /\ c # {}
        /\ \A x \in c : \A y \in c : x.name = y.name => x = y}

\* The lists of n containers with k methods at most in all.
RECURSIVE ListsOf(_, _)
ListsOf(n, k) ==
    IF n = 0 THEN {<<>>}
    ELSE UNION {{<<c>> \o rest : rest \in ListsOf(n - 1, k - Cardinality(c))} :
                    c \in {x \in Containers : Cardinality(x) <= k}}

ContainerLists(n, k) == UNION {ListsOf(j, k) : j \in 0..n}

\* RunTests / RunBenchmarks: runMethods(containers, prefix), called twice
\* with the same containers.  c and i are the loop variables, called[r] the
\* t.Run calls of run r in order, errors the failures recorded by the loop.
InitD ==
    \E cs \in ContainerLists(MaxContainers, MaxMethods), prefix \in {Str_Test, Str_Benchmark} :
        LET n == New(<<>>, Root, <<>>)
        IN /\ mode = "dispatch"
           /\ arrays = n.arrays
           /\ tt = n.w
           /\ ctxs = (n.ctx :> n.node)
           /\ canceled = {}
           /\ units = <<>>
           /\ heap = <<>>
           /\ ran = <<>> /\ out = <<>> /\ clock = <<>> /\ names = <<>>
           /\ suite = [containers |-> cs, prefix |-> prefix, run |-> 1,
                       c |-> 1, i |-> 0, called |-> <<<<>>, <<>>>>, errors |-> 0]

InLoop == suite.c <= Len(suite.containers)
InContainer == InLoop /\ suite.i < NumMethod(suite.containers[suite.c])
Current == Method(suite.containers[suite.c], suite.i)

\* if !strings.HasPrefix(method.Name, prefix) { continue }
SkipPrefix ==
    /\ InContainer /\ ~HasPrefix(Current.name, suite.prefix)
    /\ suite' = [suite EXCEPT !.i = @ + 1]
    /\ UNCHANGED <<mode, arrays, tt, units, ctxs, canceled, heap, ran, out, clock, names>>

\* if methodType.NumIn() != 3 || ... { continue }
SkipSignature ==
    /\ InContainer /\ HasPrefix(Current.name, suite.prefix)
    /\ ~SignatureOk(Current.sig)
    /\ suite' = [suite EXCEPT !.i = @ + 1]
    /\ UNCHANGED <<mode, arrays, tt, units, ctxs, canceled, heap, ran, out, clock, names>>

\* t.Run(method.Name, func(ctx, t) { method.Func.Call(...) })
Dispatch ==
    /\ InContainer /\ HasPrefix(Current.name, suite.prefix)
    /\ SignatureOk(Current.sig)
    /\ suite' = [suite EXCEPT !.i = @ + 1,
                              !.called[suite.run] =
                                  Append(@, <<suite.c, Current.name>>)]
    /\ UNCHANGED <<mode, arrays, tt, units, ctxs, canceled, heap, ran, out, clock, names>>

\* the inner loop ends: the next container
NextContainer ==
    /\ InLoop /\ ~InContainer
    /\ suite' = [suite EXCEPT !.c = @ + 1, !.i = 0]
    /\ UNCHANGED <<mode, arrays, tt, units, ctxs, canceled, heap, ran, out, clock, names>>

\* the test is run again
Rerun ==
    /\ ~InLoop /\ suite.run = 1
    /\ suite' = [suite EXCEPT !.run = 2, !.c = 1, !.i = 0]
    /\ UNCHANGED <<mode, arrays, tt, units, ctxs, canceled, heap, ran, out, clock, names>>

NextD ==
    \/ SkipPrefix
    \/ SkipSignature
    \/ Dispatch
    \/ NextContainer
    \/ Rerun

SpecD == InitD /\ [][NextD]_vars

----------------------------------------------------------------------------
(* Log, Error, Fatal and Skip on a wrapper: the call on the bound unit tb, *)
(* the mirrored call on the logger, and what the host does with the call:  *)
(* Error and Fatal mark the unit and its ancestors failed, Skip marks the  *)
(* unit skipped, Fatal and Skip end the calling goroutine (its deferred    *)
(* calls run, the code after the call does not).                           *)

SignalMethods == {"Log", "Logf", "Error", "Errorf", "Fatal", "Fatalf", "Skip", "Skipf"}

Fails(m) == m \in {"Error", "Errorf", "Fatal", "Fatalf"}
Skips(m) == m \in {"Skip", "Skipf"}
\* (a Fatal that records the failure and returns to its caller)
exitsOnSkip(m) == m \in {"Skip", "Skipf"}

Exits(m) == m \in {"Fatal", "Fatalf", "Skip", "Skipf"}

\* (a mirror that calls the logger method of the same name)
loggerMethodSame(m) == m

\* The logger method each wrapper method calls.
LoggerMethod(m) ==
    CASE m = "Log" -> "Log"
      [] m = "Logf" -> "Logf"
      [] m = "Error" -> "Error"
      [] m = "Errorf" -> "Errorf"
      [] m = "Fatal" -> "Error"
      [] m = "Fatalf" -> "Errorf"
      [] m = "Skip" -> "Log"
      [] m = "Skipf" -> "Logf"

\* (a wrapper that always calls the unit first)
mirrorLast(m) == FALSE

\* The methods that call the logger before the unit.
MirrorFirst(m) == m \in {"Fatal", "Fatalf", "Skip", "Skipf"}

Call(on, m, a, by, w) ==
    [on |-> on, m |-> m, arg |-> a, by |-> by, logger |-> w.logger]

\* The calls w.m(args) makes, in order.
SignalCalls(w, m, a, by) ==
    LET host == Call(<<"tb", w.tb>>, m, a, by, w)
        mirror == Call(w.logger, LoggerMethod(m), a, by, w)
    IN IF w.logger = NoLogger THEN <<host>>
       ELSE IF MirrorFirst(m) THEN <<mirror, host>>
       ELSE <<host, mirror>>

\* The calls made on wrappers so far.
WrapperCalls == {k \in 1..Len(out) : out[k].on[1] = "w"}
NumSignals == Cardinality(WrapperCalls)

\* The wrapper the code running in unit u holds: the one its layer of the
\* chain, or its function, was called with.
HeldWrapper(u) ==
    IF units[u].phase = "body" THEN units[u].fnw
    ELSE units[u].frames[units[u].pos].t

\* (an abort of the goroutine that runs no deferred call)
unwoundNone(u) == {}

\* The contexts whose deferred cancel runs when the goroutine of u ends.
Unwound(u) ==
    {units[u].frames[i + 1].ctx :
        i \in {j \in 1..(Len(units[u].frames) - 1) : units[u].chain[j][1] = "timeout"}}

\* What w.m(args) does, called in unit u on the wrapper w.
Raise(u, w, m) ==
    LET a == NumSignals + 1
    IN /\ out' = out \o <<Call(<<"w", w.tb>>, m, a, u, w)>>
                     \o SignalCalls(w, m, a, u)
       /\ units' = [v \in DOMAIN units |->
             LET r1 == IF Fails(m) /\ IsPrefix(v, w.tb)
                       THEN [units[v] EXCEPT !.failed = TRUE] ELSE units[v]
                 r2 == IF Skips(m) /\ v = w.tb
                       THEN [r1 EXCEPT !.skipped = TRUE] ELSE r1
             IN IF Exits(m) /\ v = u THEN Returned(r2) ELSE r2]
       /\ canceled' = IF Exits(m) THEN canceled \cup Unwound(u) ELSE canceled

\* w.m(args) in unit u, in a middleware before or after next, or in fn.
Signal(u, m) ==
    /\ Active(u) /\ units[u].phase \in {"down", "body", "up"}
    /\ units[u].phase = "down" => Layer(u) # SyncFn
    /\ units[u].phase = "body" => ~Blocked(u)
    /\ NumSignals < MaxSignals
    /\ Raise(u, HeldWrapper(u), m)
    /\ UNCHANGED <<mode, arrays, tt, ctxs, heap, ran, suite, clock, names>>

\* The middleware of the tests that log and fail: none, one that attaches
\* a logger, or WithParallel.
KindListsS ==
    {ks \in KindLists :
        Len(ks) <= 1 /\ \A i \in 1..Len(ks) : ks[i] \in {"logger", "parallel"}}

InitS ==
    \E ks \in KindListsS :
        LET n == New(<<>>, Root, Mws(ks, 0))
        IN /\ mode = "signals"
           /\ arrays = n.arrays
           /\ tt = n.w
           /\ ctxs = (n.ctx :> n.node)
           /\ canceled = {}
           /\ heap = <<>>
           /\ ran = <<>> /\ out = <<>> /\ suite = <<>> /\ names = <<>> /\ clock = <<>>
           /\ units = (Root :>
                 [UnitRec(n.w, <<>>, <<>>, "body") EXCEPT !.cleanups = n.cleanup])

NextS ==
    \E u \in DOMAIN units :
        \/ Run(u)
        \/ \E m \in SignalMethods : Signal(u, m)
        \/ LoggerMw(u)
        \/ WithParallel(u)
        \/ Resume(u)
        \/ CallFn(u)
        \/ FnReturn(u)
        \/ MwReturn(u)
        \/ RunCleanup(u)
        \/ Complete(u)

SpecS == InitS /\ [][NextS]_vars

----------------------------------------------------------------------------
(* Tests under WithTimeout.  The middleware are WithTimeout and            *)
(* pass-throughs; a body fails, skips, panics, spawns sub-units, or goes   *)
(* on with the wrapper it was handed given another context.  A panic       *)
(* unwinds the goroutine of the unit (its deferred calls run), the host    *)
(* marks the unit failed, runs its cleanups and ends the test binary.      *)

Crashed == \E v \in Spawned : units[v].st = "panicked"

RECURSIVE Reverse(_)
Reverse(q) == IF q = <<>> THEN <<>> ELSE Append(Reverse(Tail(q)), Head(q))

\* panic(v) in unit u, in a middleware before or after next, or in fn
Panic(u) ==
    /\ Active(u) /\ units[u].phase \in {"down", "body", "up"}
    /\ units[u].phase = "down" => Layer(u) # SyncFn
    /\ units[u].phase = "body" => ~Blocked(u)
    /\ units' = [v \in DOMAIN units |->
          LET r1 == IF IsPrefix(v, u)
                    THEN [units[v] EXCEPT !.failed = TRUE] ELSE units[v]
              r2 == IF v = u THEN [Returned(r1) EXCEPT !.cleanups = <<>>] ELSE r1
          IN IF v = u THEN [r2 EXCEPT !.st = "panicked"]
             ELSE IF r2.st = "done" THEN r2 ELSE [r2 EXCEPT !.st = "crashed"]]
    /\ canceled' = canceled \cup Unwound(u)
                      \cup {units[u].cleanups[i].ctx : i \in 1..Len(units[u].cleanups)}
    /\ ran' = ran \o Reverse(units[u].cleanups)
    /\ UNCHANGED <<mode, arrays, tt, ctxs, heap, out, suite, clock, names>>

\* The body goes on with t = t.WithContext(context.Background())
Recontext(u) ==
    /\ Active(u) /\ units[u].phase = "body" /\ ~Blocked(u) /\ u # Root
    /\ units[u].fnw.ctx # Background
    /\ units' = [units EXCEPT ![u].fnw = WithContext(@, Background)]
    /\ UNCHANGED <<mode, arrays, tt, ctxs, canceled, heap, aux>>

\* The middleware of the tests under a timeout: WithTimeout, with a
\* pass-through before or after it, or none.
KindListsT ==
    {ks \in KindLists :
        /\ \A i \in 1..Len(ks) : ks[i] \in {"pass", "timeout"}
        /\ CountKind(ks, "pass") <= 1}

\* The calls these tests make on their wrappers.
TimeoutSignals == {"Fatal", "Skip"}

InitT ==
    \E ks \in KindListsT :
        LET n == New(<<>>, Root, Mws(ks, 0))
        IN /\ mode = "timeout"
           /\ arrays = n.arrays
           /\ tt = n.w
           /\ ctxs = (n.ctx :> n.node)
           /\ canceled = {}
           /\ heap = <<>>
           /\ ran = <<>> /\ out = <<>> /\ suite = <<>> /\ names = <<>> /\ clock = <<>>
           /\ units = (Root :>
                 [UnitRec(n.w, <<>>, <<>>, "body") EXCEPT !.cleanups = n.cleanup])

NextT ==
    /\ ~Crashed
    /\ \/ \E u \in DOMAIN units :
             \/ Run(u)
             \/ \E m \in TimeoutSignals : Signal(u, m)
             \/ Panic(u)
             \/ Recontext(u)
             \/ PassMw(u)
             \/ WithTimeout(u)
             \/ CallFn(u)
             \/ FnReturn(u)
             \/ MwReturn(u)
             \/ RunCleanup(u)
             \/ Complete(u)
       \/ \E c \in DOMAIN ctxs : Deadline(c)

SpecT == InitT /\ [][NextT]_vars

----------------------------------------------------------------------------
(* Timed tests: WithTimeout(d) is registered and the body of a sub-unit is *)
(*     select { case <-ctx.Done(): t.Fatal(...); case <-time.After(s): }   *)
(* clock.now is the time, clock.due the deadline of each context           *)
(* WithTimeout derived, clock.wake the end of each body's sleep and        *)
(* clock.seen the time a body saw ctx.Done().  A timer fires, and a        *)
(* goroutine waiting in select on a ready channel goes on, before the time *)
(* moves on; everything else takes any time.                               *)

\* time.After(s) of the body, and the timeouts d the tests register
SleepD == 2
TimeoutDs == {1, 3}

Sleeping(u) == u \in DOMAIN clock.wake
Waiting(u) == Sleeping(u) /\ Active(u) /\ units[u].phase = "body"

\* The body of u reaches its select.
Select(u) ==
    /\ Active(u) /\ units[u].phase = "body" /\ ~Blocked(u) /\ u # Root
    /\ ~Sleeping(u)
    /\ clock' = [clock EXCEPT !.wake = (u :> clock.now + SleepD) @@ @]
    /\ UNCHANGED <<mode, arrays, tt, units, ctxs, canceled, heap, ran, out, suite, names>>

\* case <-ctx.Done(): t.Fatal("test timed out")
ObserveDone(u) ==
    /\ Waiting(u) /\ Canceled(units[u].fnctx)
    /\ Raise(u, units[u].fnw, "Fatal")
    /\ clock' = [clock EXCEPT !.seen = (u :> clock.now) @@ @]
    /\ UNCHANGED <<mode, arrays, tt, ctxs, heap, ran, suite, names>>

\* case <-time.After(s): the body returns
SleepEnds(u) ==
    /\ Waiting(u) /\ clock.wake[u] <= clock.now
    /\ FnReturn(u)

\* The timers that have not fired.
PendingDeadlines == {c \in DOMAIN clock.due : ~Canceled(c)}
PendingSleeps == {u \in DOMAIN clock.wake : Waiting(u)}

\* The time moves on, to the next timer at most.
Tick ==
    /\ PendingDeadlines # {} \/ PendingSleeps # {}
    /\ \A c \in PendingDeadlines : clock.due[c] > clock.now
    /\ \A u \in PendingSleeps :
          clock.wake[u] > clock.now /\ ~Canceled(units[u].fnctx)
    /\ clock' = [clock EXCEPT !.now = @ + 1]
    /\ UNCHANGED <<mode, arrays, tt, units, ctxs, canceled, heap, ran, out, suite, names>>

\* The middleware of the timed tests: WithTimeout, alone or with a
\* pass-through before or after it.
KindListsL == {ks \in KindListsT : CountKind(ks, "timeout") = 1}

InitL ==
    \E ks \in KindListsL, d \in TimeoutDs :
        LET n == New(<<>>, Root, Mws(ks, 0))
        IN /\ mode = "timed"
           /\ arrays = n.arrays
           /\ tt = n.w
           /\ ctxs = (n.ctx :> n.node)
           /\ canceled = {}
           /\ heap = <<>>
           /\ ran = <<>> /\ out = <<>> /\ suite = <<>> /\ names = <<>>
           /\ clock = [now |-> 0, d |-> d, due |-> <<>>, wake |-> <<>>, seen |-> <<>>]
           /\ units = (Root :>
                 [UnitRec(n.w, <<>>, <<>>, "body") EXCEPT !.cleanups = n.cleanup])

NextL ==
    \/ \E u \in DOMAIN units :
          \/ ~Sleeping(u) /\ Run(u)
          \/ Select(u)
          \/ ObserveDone(u)
          \/ SleepEnds(u)
          \/ ~Sleeping(u) /\ FnReturn(u)
          \/ PassMw(u)
          \/ WithTimeout(u)
          \/ CallFn(u)
          \/ MwReturn(u)
          \/ RunCleanup(u)
          \/ Complete(u)
    \/ \E c \in DOMAIN ctxs : Deadline(c)
    \/ Tick

\* The goroutines run and the timers fire: a step that can be taken is taken.
SpecL == InitL /\ [][NextL]_vars /\ WF_vars(NextL)

----------------------------------------------------------------------------
(* BaseName.  A name is a sequence of bytes; Name() of a sub-unit is the   *)
(* name of its parent, "/" and the name given to Run.                      *)

Chars == {"a", "b", "/"}
Names == UNION {[1..n -> Chars] : n \in 0..MaxNameLen}

\* (a scan for the first '/' instead of the last), s[i] is the byte at the
\* 0-based index i
RECURSIVE firstSlashFrom(_, _)
firstSlashFrom(s, i) ==
    IF i >= Len(s) THEN -1
    ELSE IF s[i + 1] = "/" THEN i ELSE firstSlashFrom(s, i + 1)

firstSlashIndex(s) == firstSlashFrom(s, 0)

\* for i := len(s) - 1; i >= 0; i-- { if s[i] == '/' { return i } }
RECURSIVE lastSlashFrom(_, _)
lastSlashFrom(s, i) ==
    IF i < 0 THEN -1
    ELSE IF s[i + 1] = "/" THEN i ELSE lastSlashFrom(s, i - 1)

lastSlashIndex(s) == lastSlashFrom(s, Len(s) - 1)

\* BaseName: name[idx+1:] if idx := lastSlashIndex(name) is >= 0, else name
BaseName(name) ==
    LET idx == lastSlashIndex(name)
    IN IF idx >= 0 THEN SubSeq(name, idx + 2, Len(name)) ELSE name

\* A wrapper of a unit of any name.
InitB ==
    \E name \in Names :
        LET n == New(<<>>, Root, <<>>)
        IN /\ mode = "name"
           /\ arrays = n.arrays
           /\ tt = n.w
           /\ ctxs = (n.ctx :> n.node)
           /\ canceled = {}
           /\ units = <<>>
           /\ heap = <<>>
           /\ ran = <<>> /\ out = <<>> /\ suite = <<>> /\ clock = <<>>
           /\ names = [name |-> name, called |-> FALSE, base |-> <<>>]

\* base := w.BaseName()
OpBaseName ==
    /\ mode = "name" /\ ~names.called
    /\ names' = [names EXCEPT !.called = TRUE, !.base = BaseName(names.name)]
    /\ UNCHANGED <<mode, arrays, tt, units, ctxs, canceled, heap, ran, out, suite,
                   clock>>

NextB == OpBaseName

SpecB == InitB /\ [][NextB]_vars

----------------------------------------------------------------------------
(* The mutable-registration variant: W carries a lock, Use appends to the  *)
(* wrapper's own list under it, and the closure of Run reads the list of   *)
(* the wrapper Run was called on.  heap holds the wrapper objects, units   *)
(* the goroutines of the host units.                                       *)

MaxInitUses == 3       \* Use calls of the test before it spawns sub-units
MaxUses == 2           \* Use calls made by the bodies
MaxMutUnits == 4       \* sub-units spawned with the mutable variant
MaxDepth == 2          \* levels of sub-units below the test

\* &W{tb, ctx, middleware}; mu is the set of holders of the write lock, reg
\* the middleware registered for the wrapper: those of the list it was made
\* from, then those of the Use calls on it, in order.
WObj(tb, ctx, mw, reg) ==
    [tb |-> tb, ctx |-> ctx, middleware |-> mw, mu |-> {}, reg |-> reg]

\* The goroutine of a unit: pc is "new" (the closure of Run starts), "loop"
\* (newW is built), "mw" (the wrapped function runs), "body", "append" and
\* "unlock" (inside Use), "ret"; calls holds the sub-units its goroutine
\* started with Run.
MUnit(pc, from, w) ==
    [st |-> "run", par |-> FALSE, pc |-> pc, from |-> from, w |-> w,
     calls |-> {},
     chain |-> <<>>, expect |-> <<>>, pos |-> 0,
     use |-> [w |-> 0, m |-> NoMw]]

\* w.Use(m1); w.Use(m2); ...: one call for each middleware.
RECURSIVE UseEach(_, _, _)
UseEach(as, s, ms) ==
    IF ms = <<>> THEN [arrays |-> as, slice |-> s]
    ELSE LET r == append(as, s, <<Head(ms)>>)
         IN UseEach(r.arrays, r.slice, Tail(ms))

\* The test registers pass-throughs; WithParallel is added by the bodies.
KindListsM == UNION {[1..n -> {"pass"}] : n \in 0..MaxInitUses}

\* tt := New(t), then the Use calls the test makes before it spawns.
InitM ==
    \E ks \in KindListsM :
        LET n == New(<<>>, Root, <<>>)
            r == UseEach(n.arrays, NilSlice, Mws(ks, 0))
        IN /\ mode = "mutable"
           /\ arrays = r.arrays
           /\ tt = n.w
           /\ ctxs = (n.ctx :> n.node)
           /\ canceled = {}
           /\ heap = <<WObj(Root, n.ctx, r.slice, Mws(ks, 0))>>
           /\ units = (Root :> MUnit("body", 0, 1))
           /\ ran = <<>> /\ out = <<>> /\ suite = <<>> /\ clock = <<>>
           /\ names = <<>>

\* The wrappers the body of u can name: its own and, through the closures,
\* those of the units around it.
HeldM(u) == {units[v].w : v \in {x \in Spawned : IsPrefix(x, u)}}

\* tb.Run returns to its caller once the sub-unit has completed or has
\* called Parallel.
InBody(u) ==
    /\ u \in Spawned /\ units[u].st = "run" /\ units[u].pc = "body"
    /\ \A c \in units[u].calls : units[c].st = "done" \/ units[c].par

\* The middleware values of the Use calls made or under way.
UsedMws ==
    UNION {{heap[k].reg[i] : i \in 1..Len(heap[k].reg)} : k \in 1..Len(heap)}
    \cup {units[u].use.m : u \in Spawned}

HasParallel(ms) == \E i \in 1..Len(ms) : ms[i][1] = "parallel"

\* w.Use(m), to the acquisition of the lock: w.mu.Lock().  The middleware is
\* a new pass-through, or WithParallel where the list has none.
UseLock(u, k, kind) ==
    /\ mode = "mutable" /\ InBody(u) /\ k \in HeldM(u)
    /\ heap[k].mu = {}
    /\ kind = "parallel" => ~HasParallel(heap[k].reg)
    /\ \E id \in 11..(10 + MaxUses) :
        /\ \A j \in 11..(id - 1) : \E m \in UsedMws : m[2] = j
        /\ \A m \in UsedMws : m[2] # id
        /\ units' = [units EXCEPT ![u].pc = "append",
                                  ![u].use = [w |-> k, m |-> <<kind, id>>]]
    /\ heap' = [heap EXCEPT ![k].mu = {u}]
    /\ UNCHANGED <<mode, arrays, tt, ctxs, canceled>> /\ UNCHANGED aux

\* w.middleware = append(w.middleware, m...)
UseAppend(u) ==
    /\ mode = "mutable" /\ u \in Spawned /\ units[u].pc = "append"
    /\ LET k == units[u].use.w
           r == append(arrays, heap[k].middleware, <<units[u].use.m>>)
       IN /\ arrays' = r.arrays
          /\ heap' = [heap EXCEPT ![k].middleware = r.slice,
                                  ![k].reg = Append(@, units[u].use.m)]
    /\ units' = [units EXCEPT ![u].pc = "unlock"]
    /\ UNCHANGED <<mode, tt, ctxs, canceled>> /\ UNCHANGED aux

\* defer w.mu.Unlock()
UseUnlock(u) ==
    /\ mode = "mutable" /\ u \in Spawned /\ units[u].pc = "unlock"
    /\ heap' = [heap EXCEPT ![units[u].use.w].mu = {}]
    /\ units' = [units EXCEPT ![u].pc = "body",
                              ![u].use = [w |-> 0, m |-> NoMw]]
    /\ UNCHANGED <<mode, arrays, tt, ctxs, canceled>> /\ UNCHANGED aux

\* w.Run(name, fn), to the start of the sub-unit: w.tb.Run(name, closure).
\* The calls of Run on a unit return before the function of the unit does.
RunM(u, k) ==
    /\ mode = "mutable" /\ InBody(u) /\ k \in HeldM(u)
    /\ units[heap[k].tb].st = "run"
    /\ Cardinality(Spawned) <= MaxMutUnits
    /\ Len(heap[k].tb) < MaxDepth
    /\ LET p == heap[k].tb
           t == Append(p, Cardinality(Kids(p)) + 1)
       IN units' = (t :> MUnit("new", k, 0)) @@
                   [units EXCEPT ![u].calls = @ \cup {t}]
    /\ UNCHANGED <<mode, arrays, tt, ctxs, canceled, heap>> /\ UNCHANGED aux

\* newW := &W{tb: t, ctx: w.ctx, middleware: w.middleware}
ClosureNew(t) ==
    /\ mode = "mutable" /\ t \in Spawned /\ units[t].pc = "new"
    /\ LET w == heap[units[t].from]
       IN heap' = Append(heap, WObj(t, w.ctx, w.middleware, w.reg))
    /\ units' = [units EXCEPT ![t].pc = "loop", ![t].w = Len(heap) + 1]
    /\ UNCHANGED <<mode, arrays, tt, ctxs, canceled>> /\ UNCHANGED aux

\* for i := len(w.middleware) - 1; i >= 0; i-- { wrapped = w.middleware[i](wrapped) }
ClosureWrap(t) ==
    /\ mode = "mutable" /\ t \in Spawned /\ units[t].pc = "loop"
    /\ LET w == heap[units[t].from]
       IN units' = [units EXCEPT
                      ![t].pc = "mw", ![t].pos = 1,
                      ![t].chain = Append(Elems(arrays, w.middleware), SyncFn),
                      ![t].expect = Append(w.reg, SyncFn)]
    /\ UNCHANGED <<mode, arrays, tt, ctxs, canceled, heap>> /\ UNCHANGED aux

\* The position of the first layer of chain from pos on that leaves the
\* goroutine: WithParallel, which waits in t.Parallel(), or the body.
RECURSIVE NextHalt(_, _)
NextHalt(chain, pos) ==
    IF chain[pos][1] \in {"parallel", "fn"} THEN pos
    ELSE NextHalt(chain, pos + 1)

\* wrapped(newW.ctx, newW): the layers run to the body, or to the call of
\* t.Parallel() in WithParallel.
ChainStep(t) ==
    /\ mode = "mutable" /\ t \in Spawned /\ units[t].pc = "mw"
    /\ units[t].st = "run"
    /\ LET h == NextHalt(units[t].chain, units[t].pos)
           m == units[t].chain[h]
       IN units' = [units EXCEPT
                      ![t].pos = h + 1,
                      ![t].pc = IF m = SyncFn THEN "body" ELSE @,
                      ![t].par = IF m[1] = "parallel" THEN TRUE ELSE @,
                      ![t].st = IF m[1] = "parallel" THEN "paused" ELSE @]
    /\ UNCHANGED <<mode, arrays, tt, ctxs, canceled, heap>> /\ UNCHANGED aux

\* t.Parallel() returns once the function of the parent has returned.
ResumeM(t) ==
    /\ mode = "mutable" /\ t \in Spawned /\ units[t].st = "paused"
    /\ units[Parent(t)].st # "run"
    /\ units' = [units EXCEPT ![t].st = "run"]
    /\ UNCHANGED <<mode, arrays, tt, ctxs, canceled, heap>> /\ UNCHANGED aux

\* The body returns.
ReturnM(u) ==
    /\ mode = "mutable" /\ InBody(u) /\ ~Blocked(u)
    /\ units' = [units EXCEPT ![u].st = "join", ![u].pc = "ret"]
    /\ UNCHANGED <<mode, arrays, tt, ctxs, canceled, heap>> /\ UNCHANGED aux

\* The unit completes once its sub-units have; its goroutine has ended and
\* what it held is dropped.
CompleteM(u) ==
    /\ mode = "mutable" /\ u \in Spawned /\ units[u].st = "join"
    /\ \A c \in Kids(u) : units[c].st = "done"
    /\ units' = [units EXCEPT ![u] = [MUnit("ret", @.from, @.w) EXCEPT
                                        !.st = "done", !.par = units[u].par]]
    /\ UNCHANGED <<mode, arrays, tt, ctxs, canceled, heap>> /\ UNCHANGED aux

NextM ==
    \/ \E u \in Spawned, k \in 1..Len(heap), kind \in {"pass", "parallel"} :
            UseLock(u, k, kind)
    \/ \E u \in Spawned : UseAppend(u)
    \/ \E u \in Spawned : UseUnlock(u)
    \/ \E u \in Spawned, k \in 1..Len(heap) : RunM(u, k)
    \/ \E u \in Spawned : ClosureNew(u)
    \/ \E u \in Spawned : ClosureWrap(u)
    \/ \E u \in Spawned : ChainStep(u)
    \/ \E u \in Spawned : ResumeM(u)
    \/ \E u \in Spawned : ReturnM(u)
    \/ \E u \in Spawned : CompleteM(u)

SpecM == InitM /\ [][NextM]_vars

----------------------------------------------------------------------------
(* Loggers down the tree: the test attaches a logger to tt or not, a       *)
(* middleware attaches one for its unit, and a body goes on with           *)
(* t = t.WithLogger(l).                                                    *)

\* The logger a body of unit u attaches.
BodyLogger(u) == <<"body", u>>

\* The body goes on with t = t.WithLogger(l)
Relogger(u) ==
    /\ mode = "logger"
    /\ Active(u) /\ units[u].phase = "body" /\ ~Blocked(u) /\ u # Root
    /\ units[u].fnw.logger # BodyLogger(u)
    /\ units' = [units EXCEPT ![u].fnw = WithLogger(@, BodyLogger(u))]
    /\ UNCHANGED <<mode, arrays, tt, ctxs, canceled, heap, aux>>

KindListsG == {ks \in KindLists : \A i \in 1..Len(ks) : ks[i] \in {"pass", "logger"}}

\* tt := New(t, m...) or tt := New(t, m...).WithLogger(l)
InitG ==
    \E ks \in KindListsG, l \in {NoLogger, <<"logger", Root>>} :
        LET n == New(<<>>, Root, Mws(ks, 0))
            w == IF l = NoLogger THEN n.w ELSE WithLogger(n.w, l)
        IN /\ mode = "logger"
           /\ arrays = n.arrays
           /\ tt = w
           /\ ctxs = (n.ctx :> n.node)
           /\ canceled = {}
           /\ heap = <<>>
           /\ ran = <<>> /\ out = <<>> /\ suite = <<>> /\ names = <<>> /\ clock = <<>>
           /\ units = (Root :>
                 [UnitRec(w, <<>>, <<>>, "body") EXCEPT !.cleanups = n.cleanup])

NextG ==
    \E u \in DOMAIN units :
        \/ Run(u)
        \/ Relogger(u)
        \/ PassMw(u)
        \/ LoggerMw(u)
        \/ CallFn(u)
        \/ FnReturn(u)
        \/ MwReturn(u)
        \/ RunCleanup(u)
        \/ Complete(u)

SpecG == InitG /\ [][NextG]_vars

----------------------------------------------------------------------------
(* Properties of Run and of the middleware chain.                          *)

Registered == Elems(arrays, tt.middleware)
HasKind(k) == \E i \in 1..Len(Registered) : Registered[i][1] = k
FnCalled(u) == units[u].phase \in {"body", "up", "ret"}
FnReturned(u) == units[u].phase \in {"up", "ret"}
SubUnits == Spawned \ {Root}
Wrapped(u) == units[u].chain # <<>>

IsPrefixSeq(a, b) == Len(a) <= Len(b) /\ SubSeq(b, 1, Len(a)) = a

\* before(m0), ..., before(mN), fn, after(mN), ..., after(m0)
Nested(M) ==
    [i \in 1..Len(M) |-> <<"before", M[i]>>]
        \o <<<<"fn", SyncFn>>>>
        \o [i \in 1..Len(M) |-> <<"after", M[Len(M) + 1 - i]>>]

\* C1: the list of a wrapper is what New and Using registered, in that
\* order, and the steps Run executes on the sub-unit are, each once,
\* before(m0) .. before(mN), fn, after(mN) .. after(m0): at every moment a
\* prefix of that sequence, and all of it once the chain has returned.
C1_RunOrder ==
    \A u \in SubUnits :
        LET M == Elems(arrays, units[u].wr.middleware)
        IN /\ \A i \in 1..Len(M) : M[i][2] = i
           /\ IsPrefixSeq(units[u].log, Nested(M))
           /\ units[u].phase = "ret" => units[u].log = Nested(M)

C1_Witness ==
    \E u \in SubUnits :
        /\ units[u].st = "done"
        /\ Len(Registered) >= 2
        /\ Len(units[u].log) = 2 * Len(Registered) + 1

\* C2: once an "after" part of a middleware wrapping a node that Run
\* spawned has run, the function of every sub-unit below that node has
\* returned.
C2_AfterFollowsDescendants ==
    \A u \in SubUnits : \A d \in Descendants(u) :
        (\E i \in 1..Len(units[u].log) : units[u].log[i][1] = "after")
            => FnReturned(d)

\* C3: the context handed to a sub-unit's function is canceled once the
\* sub-unit has completed.
C3_CanceledAtCompletion ==
    \A u \in SubUnits : units[u].st = "done" => Canceled(units[u].fnctx)

\* C4: with New(t, WithTimeout(d), WithParallel()).RunTests(suite), the
\* context of a suite test, made by its own WithTimeout, is canceled before
\* the test's function has returned only when its own deadline has passed;
\* in particular so once RunTests has returned and the host resumes the
\* tests that wait in Parallel.
C4_OwnTimeoutOnly ==
    (mode = "suite" /\ Len(Registered) = 2
        /\ Registered[1][1] = "timeout" /\ Registered[2][1] = "parallel"
        /\ units[Root].phase = "ret")
    => \A u \in Kids(Root) :
          (Len(units[u].frames) >= 2 /\ ~FnReturned(u)
              /\ Canceled(units[u].frames[2].ctx))
          => units[u].frames[2].ctx \in canceled

\* C5: with one counter middleware registered, the function of a sub-unit
\* at depth d below the wrapper of New reads counter = d from its context.
C5_CounterIsDepth ==
    (mode = "run" /\ HasKind("value"))
    => \A u \in SubUnits :
          FnCalled(u) => Value(ctxs, units[u].fnctx, CountKey) = Len(u)

C5_Witness ==
    /\ mode = "run" /\ HasKind("value")
    /\ \E u \in SubUnits :
          Len(u) = 3 /\ FnCalled(u) /\ Value(ctxs, units[u].fnctx, CountKey) = 3

\* The layer of a unit's chain that binds the unit's key, 0 if none does.
ValueLayer(n) ==
    IF \E i \in 1..Len(units[n].chain) : units[n].chain[i][1] = "value"
    THEN CHOOSE i \in 1..Len(units[n].chain) : units[n].chain[i][1] = "value"
    ELSE 0

\* The binding of node n was made.
Bound(n) == ValueLayer(n) > 0 /\ Len(units[n].frames) > ValueLayer(n)

\* The keys for which c.Value(k) is not nil: those bound in c or above it.
RECURSIVE Keys(_, _)
Keys(cs, c) ==
    IF c = Background THEN {} ELSE DOMAIN cs[c].vals \cup Keys(cs, cs[c].parent)

\* The units whose key c carries.
Tagged(c) ==
    LET ks == Keys(ctxs, c) IN {n \in Spawned : TagKey(n) \in ks}

Sees(c, n) == n \in Tagged(c)

\* C6: the binding a middleware makes while wrapping node n is seen by the
\* layers inside that middleware, by n's function and by every layer and
\* function of the units below n, and by nothing else: not by the layers
\* outside it, not by a unit outside n's subtree, not through the Context()
\* of the wrapper n was spawned from.
C6_BindingScope ==
    LET bound == {n \in Spawned : Bound(n)}
    IN \A x \in Spawned :
          LET above == {n \in bound : IsPrefix(n, x)}
          IN /\ \A j \in 1..Len(units[x].frames) :
                   Tagged(units[x].frames[j].ctx)
                      = {n \in above : x = n => j > ValueLayer(n)}
             /\ FnCalled(x) /\ Wrapped(x) =>
                   /\ Tagged(units[x].fnctx) = above
                   /\ Tagged(Context(units[x].fnw)) = above
             /\ x # Root => ~Sees(Context(units[x].wr), x)

C6_Witness ==
    \E n \in SubUnits : \E x \in SubUnits : \E d \in Descendants(n) :
        /\ ~IsPrefix(n, x) /\ ~IsPrefix(x, n)
        /\ Bound(n) /\ Bound(x)
        /\ FnCalled(d) /\ FnCalled(x)
        /\ Sees(units[d].fnctx, n) /\ ~Sees(units[x].fnctx, n)

\* C7: fn is called with a wrapper whose Context() is the ctx it is called
\* with, the one the innermost middleware passed on, and which has the unit,
\* the middleware and the logger of the wrapper that middleware passed on.
C7_FnArguments ==
    \A u \in Spawned :
        (FnCalled(u) /\ Wrapped(u)) =>
            LET a == units[u].frames[Len(units[u].chain)]
                t == units[u].fnw
            IN /\ units[u].fnctx = a.ctx
               /\ Context(t) = units[u].fnctx
               /\ Unwrap(t) = Unwrap(a.t) /\ t.TB = a.t.TB
               /\ t.middleware = a.t.middleware
               /\ t.logger = a.t.logger
               /\ Unwrap(t) = u

C7_Witness ==
    \E u \in SubUnits :
        LET a == units[u].frames[Len(units[u].chain)]
        IN /\ FnCalled(u)
           /\ a.ctx # Context(a.t)
           /\ a.t.logger # NoLogger
           /\ units[u].fnw.logger = a.t.logger

----------------------------------------------------------------------------
(* Properties of the wrapper operations (SpecW).                           *)

\* heap[k] was built from heap[i] by some sequence of wrapper operations
RECURSIVE DerivedFrom(_, _)
DerivedFrom(k, i) ==
    \/ k = i
    \/ k > i /\ heap[k].from > 0 /\ DerivedFrom(heap[k].from, i)

\* heap[j] is heap[i] or a wrapper built from it that carries its list: the
\* child wrapper of Run, and what WithContext and WithLogger return
RECURSIVE CarriesListOf(_, _)
CarriesListOf(j, i) ==
    \/ j = i
    \/ j > i /\ heap[j].op \in {"Run", "WithContext", "WithLogger"}
             /\ CarriesListOf(heap[j].from, i)

\* the step is a call of Using
UsingStep ==
    /\ Len(heap') = Len(heap) + 1
    /\ heap'[Len(heap')].op = "Using"

\* C8: Using returns a wrapper whose list is the receiver's list followed by
\* the registered middleware in order, and a Using on a wrapper w or on a
\* wrapper derived from w leaves w and the child wrappers already built from
\* w as they were: same fields, same list, same chain applied by Run.
C8_UsingFrame ==
    [][UsingStep =>
        LET e == heap'[Len(heap')]
        IN /\ Elems(arrays', e.w.middleware)
                 = Elems(arrays, heap[e.from].w.middleware) \o e.mws
           /\ \A i \in 1..Len(heap) :
                 DerivedFrom(e.from, i) =>
                    \A j \in 1..Len(heap) :
                        CarriesListOf(j, i) =>
                           /\ heap'[j] = heap[j]
                           /\ Elems(arrays', heap[j].w.middleware)
                                = Elems(arrays, heap[j].w.middleware)
                           /\ wrapWithMiddleware(arrays', heap[j].w)
                                = wrapWithMiddleware(arrays, heap[j].w)]_vars

\* A Using that wrote into the spare capacity of its receiver's array, the
\* receiver being itself the result of a Using, after a child wrapper of the
\* receiver was built by Run.
C8_Witness ==
    \E k \in 1..Len(heap) :
        /\ heap[k].op = "Using" /\ heap[k].from > 1 /\ Len(heap[k].mws) > 0
        /\ heap[heap[k].from].w.middleware.len > 0
        /\ heap[k].w.middleware.arr = heap[heap[k].from].w.middleware.arr
        /\ \E j \in 1..(k - 1) : heap[j].op = "Run" /\ heap[j].from = heap[k].from

ReplaceStep ==
    /\ Len(heap') = Len(heap) + 1
    /\ heap'[Len(heap')].op \in {"WithContext", "WithLogger"}

\* C11: WithContext(ctx) and WithLogger(l) return a wrapper that is the
\* receiver with the context, respectively the logger, replaced: same unit,
\* same middleware list, every other field equal; and the call changes no
\* wrapper built before (the receiver included) and no backing array.
C11_ReplaceFrame ==
    [][ReplaceStep =>
        LET e == heap'[Len(heap')]
            r == heap[e.from].w
        IN /\ \A i \in 1..Len(heap) : heap'[i] = heap[i]
           /\ arrays' = arrays
           /\ Unwrap(e.w) = Unwrap(r) /\ e.w.TB = r.TB
           /\ e.w.middleware = r.middleware
           /\ Elems(arrays', e.w.middleware) = Elems(arrays, r.middleware)
           /\ e.op = "WithContext" =>
                 Context(e.w) = e.carg /\ e.w.logger = r.logger
           /\ e.op = "WithLogger" =>
                 Context(e.w) = Context(r) /\ e.w.logger \in Loggers]_vars

\* WithLogger on a wrapper with middleware whose context was replaced, and
\* WithContext on a wrapper that has middleware and a logger.
C11_Witness ==
    \E k \in 1..Len(heap) :
        LET r == heap[heap[k].from].w
        IN /\ heap[k].from > 0 /\ r.middleware.len > 0
           /\ \/ heap[k].op = "WithContext" /\ r.logger # NoLogger
                     /\ heap[k].carg # Context(r)
              \/ heap[k].op = "WithLogger" /\ Context(r) = Derived

----------------------------------------------------------------------------
(* Properties of cleanups (SpecC).                                         *)

StrictPrefix(a, b) == a # b /\ IsPrefix(a, b)
Unrelated(a, b) == ~IsPrefix(a, b) /\ ~IsPrefix(b, a)

\* The depth at which the paths of two unrelated units part: the units
\* SubSeq(a, 1, d) and SubSeq(b, 1, d) are siblings.
Fork(a, b) == CHOOSE d \in 1..Len(a) : a[d] # b[d] /\ SubSeq(a, 1, d - 1) = SubSeq(b, 1, d - 1)

IsUser(c) == c.op = "user"
UserRan == SelectSeq(ran, IsUser)

\* C12 (as stated): the cleanups of an earlier sibling sub-unit (and of the
\* units below it) run before those of a later sibling.
C12_SiblingOrder ==
    \A i \in 1..Len(UserRan) : \A j \in (i + 1)..Len(UserRan) :
        LET x == UserRan[i].by
            y == UserRan[j].by
        IN Unrelated(x, y) => x[Fork(x, y)] < y[Fork(x, y)]

\* C12 (amended): a cleanup registered through a wrapper is registered on
\* the unit the wrapper is bound to; the cleanups of one unit run last
\* registered first; the cleanups of a unit run after those of every unit
\* below it; and the cleanups of an earlier sibling run before those of a
\* later sibling unless the earlier sibling runs in parallel.
C12_CleanupOrder ==
    /\ \A u \in Spawned : \A i \in UserCleanups(units[u].cleanups) :
          units[u].cleanups[i].by = u
    /\ \A i \in 1..Len(UserRan) : \A j \in (i + 1)..Len(UserRan) :
          LET x == UserRan[i]
              y == UserRan[j]
          IN /\ x.by = y.by => x.n > y.n
             /\ ~StrictPrefix(x.by, y.by)
             /\ Unrelated(x.by, y.by) =>
                   LET d == Fork(x.by, y.by)
                   IN x.by[d] > y.by[d] => units[SubSeq(y.by, 1, d)].par

\* The parent registered c1 and c2, its sub-unit d1 and d2, and the host
\* ran d2, d1, c2, c1.
C12_Witness ==
    /\ Len(UserRan) = 4
    /\ UserRan[1].by = <<1>> /\ UserRan[2].by = <<1>>
    /\ UserRan[3].by = Root /\ UserRan[4].by = Root
    /\ UserRan[1].n > UserRan[2].n /\ UserRan[3].n > UserRan[4].n
    /\ UserRan[4].n < UserRan[2].n

----------------------------------------------------------------------------
(* Properties of suite dispatch (SpecD).                                   *)

\* the t.Run calls of run r for the method named nm of container ci
Calls(r, ci, nm) ==
    Cardinality({k \in 1..Len(suite.called[r]) : suite.called[r][k] = <<ci, nm>>})

\* run r is through with container ci
Through(r, ci) == suite.run > r \/ (suite.run = r /\ suite.c > ci)

StartsWith(str, prefix) == \E k \in 0..Len(str) : SubSeq(str, 1, k) = prefix

----------------------------------------------------------------------------
(* Properties of Log, Error, Fatal and Skip (SpecS).                       *)

\* w.Failed(): the promoted method of the embedded unit
Failed(w) == units[w.TB].failed

\* fn of unit x was called (the chain may end before, in a Fatal or Skip)
FnEntered(x) ==
    \E i \in 1..Len(units[x].log) : units[x].log[i] = <<"fn", SyncFn>>

\* The calls on wrappers that signal a failure, made in unit v.
FailedIn(v) ==
    \E k \in WrapperCalls :
        out[k].by = v /\ out[k].m \in {"Error", "Errorf", "Fatal", "Fatalf"}
SkippedIn(v) ==
    \E k \in WrapperCalls : out[k].by = v /\ out[k].m \in {"Skip", "Skipf"}

\* C15: a failure or skip raised through the wrapper a unit's middleware or
\* function was handed is recorded on that unit: a unit is failed exactly
\* when it or a unit below it raised Error or Fatal, skipped exactly when it
\* raised Skip, and Failed() on the wrappers handed to its middleware and
\* function reports just that; a failing sibling leaves a unit unmarked.
C15_SignalScope ==
    \A x \in Spawned :
        /\ units[x].failed <=> \E v \in Spawned : IsPrefix(x, v) /\ FailedIn(v)
        /\ units[x].skipped <=> SkippedIn(x)
        /\ \A j \in 1..Len(units[x].frames) :
              Failed(units[x].frames[j].t) = units[x].failed
        /\ FnEntered(x) => Failed(units[x].fnw) = units[x].failed

\* The first sub-unit failed and completed; a middleware of the second asks
\* Failed() after next returned and is told no.
C15_Witness ==
    /\ <<2>> \in Spawned
    /\ units[<<1>>].failed /\ units[<<1>>].st = "done"
    /\ units[<<2>>].phase = "up"
    /\ ~Failed(HeldWrapper(<<2>>))
    /\ units[Root].failed

\* C16: Run returns what the bound unit's Run returned, and for a sub-unit
\* that did not call Parallel that is false exactly when the sub-unit or a
\* unit below it raised Error or Fatal.
C16_RunResult ==
    \A u \in SubUnits :
        /\ units[u].ret = units[u].hostret
        /\ units[u].ret # "none" /\ ~units[u].par =>
              /\ units[u].st = "done"
              /\ units[u].ret = "false"
                    <=> \E v \in Spawned : IsPrefix(u, v) /\ FailedIn(v)
              /\ units[u].ret = "false" <=> units[u].failed

\* Run returned false for a sub-unit that called Fatal.
C16_Witness ==
    \E u \in SubUnits :
        /\ units[u].ret = "false" /\ ~units[u].par
        /\ \E k \in WrapperCalls : out[k].by = u /\ out[k].m = "Fatal"

\* the place in out of the call on the unit, and on the logger, made for
\* the call on a wrapper at place k
HostCalls(k) == {j \in 1..Len(out) : out[j].arg = out[k].arg /\ out[j].on[1] = "tb"}
LoggerCalls(k) == {j \in 1..Len(out) : out[j].arg = out[k].arg /\ out[j].on[1] = "logger"}

\* C17: with a logger attached, Fatal, Fatalf, Skip and Skipf call the
\* logger before the unit, and Error, Errorf, Log and Logf call the unit
\* before the logger.
C17_MirrorOrder ==
    \A k \in WrapperCalls :
        \A h \in HostCalls(k) : \A l \in LoggerCalls(k) :
            IF out[k].m \in {"Fatal", "Fatalf", "Skip", "Skipf"}
            THEN k < l /\ l < h
            ELSE k < h /\ h < l

\* Fatal on a wrapper with a logger: the logger was called, then the unit,
\* and the function of the unit was ended.
C17_Witness ==
    \E k \in WrapperCalls :
        /\ out[k].m = "Fatal" /\ out[k].logger # NoLogger
        /\ LoggerCalls(k) # {} /\ HostCalls(k) # {}
        /\ units[out[k].by].phase = "ret" /\ units[out[k].by].failed

Mirrored ==
    [m \in SignalMethods |->
        IF m \in {"Log", "Skip"} THEN "Log"
        ELSE IF m \in {"Logf", "Skipf"} THEN "Logf"
        ELSE IF m \in {"Error", "Fatal"} THEN "Error"
        ELSE "Errorf"]

\* C18: a call of Log, Logf, Error, Errorf, Fatal, Fatalf, Skip or Skipf on
\* a wrapper makes one call of the same method on the bound unit with the
\* same arguments and, with a logger attached, one call on that logger of
\* Log, Logf, Error, Errorf, Error, Errorf, Log, Logf respectively; with no
\* logger attached it calls the unit only.
C18_MirrorExact ==
    /\ \A j \in 1..Len(out) : \E k \in WrapperCalls : out[k].arg = out[j].arg
    /\ \A k \in WrapperCalls :
          /\ Cardinality(HostCalls(k)) = 1
          /\ \A h \in HostCalls(k) :
                out[h].m = out[k].m /\ out[h].on = <<"tb", out[k].on[2]>>
          /\ Cardinality(LoggerCalls(k)) = IF out[k].logger = NoLogger THEN 0 ELSE 1
          /\ \A l \in LoggerCalls(k) :
                out[l].m = Mirrored[out[k].m] /\ out[l].on = out[k].logger

\* Skipf with a logger attached reached the logger as Logf and the unit as
\* Skipf, and the unit is skipped.
C18_Witness ==
    \E k \in WrapperCalls :
        /\ out[k].m = "Skipf" /\ out[k].logger # NoLogger
        /\ \E l \in LoggerCalls(k) : out[l].m = "Logf"
        /\ \E h \in HostCalls(k) : out[h].m = "Skipf"
        /\ units[out[k].by].skipped

----------------------------------------------------------------------------
(* Equivalences: pass-through middleware, and the grouping of Using.       *)

\* the middleware of unit u only call next(ctx, t)
AllPass(u) ==
    \A i \in 1..(Len(units[u].chain) - 1) : units[u].chain[i][1] = "pass"

FnCount(u) ==
    Cardinality({i \in 1..Len(units[u].log) : units[u].log[i] = <<"fn", SyncFn>>})

\* C19: Run on a wrapper whose middleware all pass through does what Run
\* on a wrapper with no middleware does, whatever their number: fn is
\* called once, with the context of the wrapper Run was called on and with
\* that wrapper rebound to the new unit, and Run returns the same value.
C19_PassThroughIsEmpty ==
    \A u \in Spawned :
        Wrapped(u) /\ AllPass(u) =>
            /\ FnCount(u) = IF FnCalled(u) THEN 1 ELSE 0
            /\ FnCalled(u) =>
                  /\ units[u].fnctx = Context(units[u].wr)
                  /\ units[u].fnw = [units[u].wr EXCEPT !.tb = u, !.TB = u]
                  /\ Context(units[u].fnw) = units[u].fnctx
            /\ units[u].st = "done" /\ u # Root => units[u].ret = "true"
            /\ units[u].ret \in {"none", "true"}

\* A sub-unit of a sub-unit completed, run through two pass-through
\* middleware.
C19_Witness ==
    \E u \in SubUnits :
        /\ Len(u) = 2 /\ Len(units[u].chain) = 3 /\ AllPass(u)
        /\ units[u].st = "done" /\ units[u].ret = "true"

\* the lists a call Using(A..., B...) with the list m can be split into
Splits(m) == {<<SubSeq(m, 1, k), SubSeq(m, k + 1, Len(m))>> : k \in 0..Len(m)}

\* The chain Run builds on w.Using(A...).Using(B...).
TwoStep(as, w, A, B) ==
    LET a == Using(as, w, A)
    IN LET b == Using(a.arrays, a.w, B)
       IN wrapWithMiddleware(b.arrays, b.w)

\* C20: registration is associative.  New(t, A...).Using(B...) has the list
\* of New(t, A..., B...), and whenever Using(A..., B...) is called on a
\* wrapper, Using(A...).Using(B...) on that wrapper would have given the
\* same chain for Run: the same middleware in the same order around fn.
C20_UsingAssociative ==
    /\ LET n == New(<<>>, Root, heap[1].mws \o heap[2].mws)
       IN /\ Elems(arrays, heap[2].w.middleware) = Elems(n.arrays, n.w.middleware)
          /\ wrapWithMiddleware(arrays, heap[2].w) = wrapWithMiddleware(n.arrays, n.w)
    /\ [][UsingStep =>
            LET e == heap'[Len(heap')]
                one == wrapWithMiddleware(arrays', e.w)
            IN \A ab \in Splits(e.mws) : TwoStep(arrays, heap[e.from].w, ab[1], ab[2]) = one]_vars

\* Using was called with two middleware on the wrapper New(t, A...).Using(B...)
\* returned, A and B not empty.
C20_Witness ==
    \E k \in 3..Len(heap) :
        /\ heap[k].op = "Using" /\ Len(heap[k].mws) >= 2
        /\ heap[1].mws # <<>> /\ heap[2].mws # <<>>

----------------------------------------------------------------------------
(* Timeouts and cancellation (SpecT).                                      *)

\* The layers of unit u that are WithTimeout and have derived their context.
TimeoutLayers(u) ==
    {i \in 1..(Len(units[u].chain) - 1) :
        units[u].chain[i][1] = "timeout" /\ Len(units[u].frames) > i}

\* Layer i of the chain of u has exited: it returned, or the goroutine was
\* ended by Fatal, Skip or a panic.
Exited(u, i) ==
    \/ units[u].phase = "ret"
    \/ units[u].phase = "up" /\ units[u].pos < i

\* C21: once the function WithTimeout wraps has exited, by return, by Fatal
\* or Skip ending the goroutine, or by a panic, the cancel function of the
\* context WithTimeout derived has run.
C21_TimeoutReleased ==
    \A u \in Spawned : \A i \in TimeoutLayers(u) :
        Exited(u, i) => units[u].frames[i + 1].ctx \in canceled

\* A body under WithTimeout panicked: the test binary ended, and the derived
\* context is canceled.
C21_Witness ==
    \E u \in SubUnits :
        /\ units[u].st = "panicked" /\ FnEntered(u)
        /\ \E i \in TimeoutLayers(u) : units[u].frames[i + 1].ctx \in canceled

\* C22: a unit is failed exactly when it or a unit below it raised Fatal or
\* panicked, and skipped exactly when it raised Skip, whatever was canceled;
\* Run returns true for a completed sub-unit that is not failed.
C22_CancelDoesNotFail ==
    \A x \in Spawned :
        /\ units[x].failed <=>
              \E v \in Spawned :
                  IsPrefix(x, v) /\ (FailedIn(v) \/ units[v].st = "panicked")
        /\ units[x].skipped <=> SkippedIn(x)
        /\ x # Root /\ units[x].st = "done" =>
              (units[x].ret = "true" <=> ~units[x].failed)

\* The context of a sub-unit was canceled by its deadline while its body
\* ran: the sub-unit it spawned then was handed a canceled context.  Both
\* completed and both passed.
C22_Witness ==
    \E a \in SubUnits : \E b \in Kids(a) :
        /\ ~units[a].atStart /\ units[b].atStart
        /\ units[a].st = "done" /\ units[b].st = "done"
        /\ units[a].ret = "true" /\ units[b].ret = "true"
        /\ ~units[a].failed /\ ~units[b].failed /\ ~units[Root].failed

----------------------------------------------------------------------------
(* The timed tests (SpecL).                                                *)

\* The body of u saw ctx.Done() before its sleep ended, and its Fatal is
\* recorded on u.
Observed(u) ==
    /\ u \in DOMAIN clock.seen /\ clock.seen[u] < clock.wake[u]
    /\ units[u].failed
    /\ \E k \in WrapperCalls :
          out[k].by = u /\ out[k].m = "Fatal" /\ out[k].on = <<"w", u>>

\* The bodies that reached their select and have not done so.
Unobserved == {u \in DOMAIN clock.wake : ~Observed(u)}

\* C23: with a timeout shorter than the sleep of the body, every body that
\* reached its select eventually sees its context canceled, before the
\* sleep ends, and the Fatal it then calls marks its own sub-unit failed.
C23_DeadlineObserved ==
    (clock.d < SleepD /\ Unobserved # {}) ~> (Unobserved = {})

\* The body started with a live context, the deadline passed while it
\* waited, and it failed its sub-unit before the sleep ended.
C23_Witness ==
    \E u \in SubUnits :
        /\ clock.d < SleepD /\ Sleeping(u) /\ Observed(u)
        /\ ~units[u].atStart
        /\ units[u].st = "done" /\ units[u].ret = "false"

----------------------------------------------------------------------------
(* Sibling sub-units, repeated Run calls.                                  *)

Siblings(u, v) == u # v /\ Len(u) = Len(v) /\ Parent(u) = Parent(v)

\* C24: sub-units spawned by successive Run calls on one wrapper are named
\* by their place below it, each with the sub-unit it spawned below, and
\* the contexts their bodies are handed are distinct context instances,
\* none canceled by the cancellation of another.
C24_BranchContexts ==
    \A u \in SubUnits : \A v \in SubUnits :
        Siblings(u, v) /\ FnEntered(u) /\ FnEntered(v) =>
            /\ units[u].fnctx # units[v].fnctx
            /\ units[u].fnctx \notin Ancestors(ctxs, units[v].fnctx)

\* The executions of the middleware m in the units from the first sub-unit
\* on the path to u down to u.
Executions(u, m) ==
    {<<v, i>> \in UNION {{v} \X (1..Len(units[v].log)) :
                            v \in {x \in SubUnits : IsPrefix(x, u)}} :
        units[v].log[i] = <<"before", m>>}

----------------------------------------------------------------------------
(* Cancellation down the tree (SpecT).                                     *)

\* Every Run call between u and v was made on the wrapper the body was
\* handed, or on one whose context derives from the context it was handed.
HandedDown(u, v) ==
    \A x \in SubUnits :
        IsPrefix(u, x) /\ IsPrefix(x, v) /\ x # u =>
            units[Parent(x)].fnctx \in Ancestors(ctxs, units[x].wr.ctx)

\* (C28 as stated) if the context of the wrapper a sub-unit was spawned
\* from is canceled, the context of the body of that sub-unit and of every
\* sub-unit below it is canceled.
C28_CancelReachesAll ==
    \A u \in SubUnits : \A v \in SubUnits :
        IsPrefix(u, v) /\ FnEntered(v) /\ Canceled(units[u].wr.ctx) =>
            Canceled(units[v].fnctx)

\* C28, amended: if the context of the wrapper a sub-unit was spawned from
\* is canceled, the context of the body of that sub-unit is canceled, and
\* so is that of every sub-unit below it reached by Run calls on wrappers
\* whose context derives from the one the calling body was handed.
C28_CancelComposes ==
    \A u \in SubUnits : \A v \in SubUnits :
        /\ IsPrefix(u, v) /\ FnEntered(v) /\ HandedDown(u, v)
        /\ Canceled(units[u].wr.ctx)
        => Canceled(units[v].fnctx)

\* The deadline of a sub-unit passed while the body of a sub-unit below it
\* ran: the context of that body, derived by its own WithTimeout, is
\* canceled though its own cancel has not run.
C28_Witness ==
    \E u \in SubUnits : \E v \in Kids(u) :
        /\ units[v].phase = "body" /\ HandedDown(u, v)
        /\ units[v].wr.ctx \in canceled /\ ctxs[units[v].wr.ctx].kind = "timeout"
        /\ units[v].fnctx # units[v].wr.ctx
        /\ units[v].fnctx \notin canceled /\ Canceled(units[v].fnctx)

----------------------------------------------------------------------------
(* BaseName (SpecB).                                                       *)

\* the places of '/' in the name n
Slashes(n) == {i \in 1..Len(n) : n[i] = "/"}

\* C29: BaseName returns what follows the last '/' of the name, the whole
\* name when it holds no '/', and what it returns holds no '/'.
C29_BaseName ==
    names.called =>
        LET n == names.name
            b == names.base
        IN /\ Slashes(n) = {} => b = n
           /\ Slashes(n) # {} =>
                 LET last == CHOOSE i \in Slashes(n) : \A j \in Slashes(n) : j <= i
                 IN b = SubSeq(n, last + 1, Len(n))
           /\ Slashes(b) = {}

\* BaseName was called on a name of three segments and returned the last.
C29_Witness ==
    /\ names.called
    /\ Cardinality(Slashes(names.name)) = 2
    /\ names.base # <<>> /\ names.name[1] # "/"

----------------------------------------------------------------------------
(* The lists of wrappers built from one wrapper (SpecW).                   *)

\* The middleware registered for heap[k], in order: the arguments of New
\* and of every Using on the way to it.
RECURSIVE ListBuilt(_)
ListBuilt(k) ==
    IF heap[k].op = "New" THEN heap[k].mws
    ELSE IF heap[k].op = "Using" THEN ListBuilt(heap[k].from) \o heap[k].mws
    ELSE ListBuilt(heap[k].from)

\* C30: the list of every wrapper stays the list it was built with, the
\* list of its receiver followed by the middleware given to Using,
\* whatever is registered later on other wrappers built from that receiver.
C30_ListsIndependent ==
    \A k \in 1..Len(heap) :
        Elems(arrays, heap[k].w.middleware) = ListBuilt(k)


\* C26: the wrapped function of a sub-unit is made of the middleware
\* registered for the wrapper it was spawned from, those the wrapper
\* inherited and then those added to it with Use, in order, and of nothing
\* else.
C26_DynamicAddition ==
    mode = "mutable" =>
        \A x \in Spawned :
            units[x].pc \notin {"new", "loop"} /\ x # Root =>
                units[x].chain = units[x].expect

\* C27: no goroutine is about to read the middleware list of a wrapper in
\* the closure of Run while another one, inside Use, is about to append to
\* the list of that wrapper.
C27_ListAccessLocked ==
    mode = "mutable" =>
        \A a, b \in Spawned :
            ~(/\ units[a].pc = "append"
              /\ units[b].pc \in {"new", "loop"}
              /\ units[b].from = units[a].use.w
              /\ b \notin heap[units[b].from].mu)


----------------------------------------------------------------------------
(* The chain around the dispatch of RunTests (Spec, mode "suite").         *)

\* The units of the methods the dispatch ran.
MethodUnits == Kids(Root)

\* The times the before-part of m ran on unit u.
Befores(u, m) ==
    Cardinality({k \in 1..Len(units[u].log) : units[u].log[k] = <<"before", m>>})

RECURSIVE SumBefores(_, _)
SumBefores(us, m) ==
    IF us = {} THEN 0
    ELSE LET u == CHOOSE x \in us : TRUE
         IN Befores(u, m) + SumBefores(us \ {u}, m)

\* C31: RunTests runs the chain once around the dispatch on the unit of the
\* receiver and once around each method on the sub-unit of the method: a
\* method's sub-unit exists only once the before-parts of the root chain
\* have run and the dispatch was entered, its chain is that of the root and
\* starts from the context the dispatch was called with, with n methods
\* every middleware has run n+1 times when the test has completed, and the
\* binding a per-unit middleware makes for a method lies directly below the
\* one it made for the root.
C31_SuiteChain ==
    mode = "suite" =>
        LET M == Registered
        IN /\ Wrapped(Root) => units[Root].chain = M \o <<SyncFn>>
           /\ \A t \in MethodUnits :
                 /\ IsPrefixSeq([i \in 1..Len(M) |-> <<"before", M[i]>>]
                                   \o <<<<"fn", SyncFn>>>>, units[Root].log)
                 /\ units[t].chain = units[Root].chain
                 /\ units[t].frames[1].ctx = units[Root].fnctx
                 /\ Bound(t) =>
                       LET c == units[t].frames[ValueLayer(t) + 1].ctx
                       IN /\ Value(ctxs, c, CountKey) = 2
                          /\ Tagged(c) = {Root, t}
           /\ units[Root].st = "done" =>
                 \A i \in 1..Len(M) :
                     SumBefores({Root} \cup MethodUnits, M[i])
                        = Cardinality(MethodUnits) + 1

\* A suite of two methods under a per-unit middleware and another one has
\* completed.
C31_Witness ==
    /\ mode = "suite" /\ units[Root].st = "done"
    /\ Cardinality(MethodUnits) = 2
    /\ Len(Registered) = 2 /\ HasKind("value")
    /\ \A t \in MethodUnits : Bound(t) /\ units[t].st = "done"


----------------------------------------------------------------------------
(* Loggers down the tree (SpecG).                                          *)

\* The loggers of the wrappers of unit x: of the child wrapper Run built,
\* of those the layers passed on, and of the one the body holds.
LoggersIn(x) ==
    {units[x].frames[j].t.logger : j \in 1..Len(units[x].frames)}
        \cup {units[x].fnw.logger}

\* C32: the child wrapper Run builds carries the logger of the wrapper Run
\* was called on, each layer hands on the logger it was given unless it is
\* a middleware that attaches one, fn is called with the logger the last
\* layer handed on and holds it until the body attaches another, and a
\* logger attached in a unit is carried by wrappers of that unit and of the
\* units below it only; the logger of tt by any.
C32_LoggerInherited ==
    mode = "logger" =>
        \A x \in SubUnits :
            LET f == units[x].frames
            IN /\ f[1].t.logger = units[x].wr.logger
               /\ \A j \in 1..(Len(f) - 1) :
                     f[j + 1].t.logger =
                        IF units[x].chain[j][1] = "logger"
                        THEN <<"logger", x>> ELSE f[j].t.logger
               /\ FnCalled(x) =>
                     units[x].fnw.logger \in {f[Len(f)].t.logger, BodyLogger(x)}
               /\ \A l \in LoggersIn(x) :
                     l = NoLogger \/ IsPrefix(l[2], x)

\* The logger a body attached is carried into the unit below it, and a
\* sibling spawned later carries the logger of tt.
C32_Witness ==
    /\ mode = "logger"
    /\ \E n \in SubUnits : \E d \in Descendants(n) : \E x \in SubUnits :
          /\ Len(x) = Len(n) /\ x # n
          /\ FnCalled(d) /\ units[d].fnw.logger = BodyLogger(n)
          /\ FnCalled(x) /\ units[x].fnw.logger = <<"logger", Root>>


----------------------------------------------------------------------------
(* Fatal in the body of a sub-unit (SpecT).                                *)

\* Fatal was called on a wrapper in unit u.
FatalIn(u) ==
    \E k \in WrapperCalls : out[k].by = u /\ out[k].m \in {"Fatal", "Fatalf"}

\* C33: the step in which the body of a sub-unit calls Fatal on its wrapper
\* ends the goroutine of the sub-unit with nothing more run on it, records
\* the sub-unit failed (and with it the units above it), and leaves every
\* other unit as it was: the parent in its body, where its Run call returns
\* false once the sub-unit has completed, and the completed sub-units
\* untouched; from then on no step runs anything on the sub-unit.
C33_FatalAborts ==
    [][\A u \in SubUnits :
          /\ (units[u].phase = "body" /\ ~FatalIn(u) /\ FatalIn(u)') =>
                /\ units'[u].phase = "ret" /\ units'[u].st = "join"
                /\ units'[u].failed
                /\ units'[u].log = units[u].log
                /\ \A v \in Spawned \ {u} :
                      units'[v] = [units[v] EXCEPT !.failed = @ \/ IsPrefix(v, u)]
          /\ FatalIn(u) =>
                /\ units'[u].phase = "ret" /\ units'[u].failed
                /\ units'[u].log = units[u].log
                /\ units'[u].kids = units[u].kids
                /\ units'[u].st = "done" => units'[u].ret = "false"]_vars

\* The body of the first sub-unit, under a middleware, called Fatal; the
\* sub-unit completed with no after-part run, and the body of a sub-unit
\* the parent spawned next has started.
C33_Witness ==
    \E u \in SubUnits : \E x \in SubUnits :
        /\ Parent(x) = Parent(u) /\ x[Len(x)] > u[Len(u)]
        /\ FatalIn(u) /\ FnEntered(u) /\ Len(units[u].chain) >= 2
        /\ units[u].log[Len(units[u].log)] = <<"fn", SyncFn>>
        /\ units[u].st = "done" /\ units[u].failed /\ units[u].ret = "false"
        /\ FnCalled(x) /\ units[x].phase = "body"


----------------------------------------------------------------------------
(* The two unit references of a wrapper (SpecW).                           *)

\* C34: the unit Unwrap returns and the embedded TB of every wrapper are the
\* same host unit: that given to New, that of the receiver for the wrappers
\* Using, WithContext and WithLogger return, and the newly spawned sub-unit
\* of the receiver's unit for the wrapper Run hands to the chain.
C34_UnitRefsAgree ==
    /\ Unwrap(tt) = tt.TB
    /\ \A k \in 1..Len(heap) :
          LET e == heap[k]
          IN /\ Unwrap(e.w) = e.w.TB
             /\ e.op = "New" => e.w.TB = Root
             /\ e.op \in {"Using", "WithContext", "WithLogger"} =>
                   e.w.TB = heap[e.from].w.TB
             /\ e.op = "Run" =>
                   /\ e.w.TB # Root
                   /\ Parent(e.w.TB) = heap[e.from].w.TB

\* Run built the wrapper of a sub-unit, and WithLogger, WithContext or Using
\* was called on it: the wrapper returned has the sub-unit in both references.
C34_Witness ==
    \E k \in 1..Len(heap) : \E j \in 1..Len(heap) :
        /\ heap[k].op = "Run" /\ heap[k].w.TB # Root
        /\ heap[j].from = k
        /\ heap[j].op \in {"Using", "WithContext", "WithLogger"}
        /\ Unwrap(heap[j].w) = heap[k].w.TB /\ heap[j].w.TB = heap[k].w.TB

=============================================================================
